---- MODULE Spec2Model ----
(***************************************************************************)
(* Verification model of douzhi-chat's risk-mitigation core:               *)
(*   - the Rate/Risk Guard (src/core/risk-guard.ts): persisted per-        *)
(*     provider cadence limiter, cooldown and circuit breaker;             *)
(*   - the Session Orchestrator runChat (core/chat.ts) with its browser    *)
(*     sessions, login / verification recovery and retry loop;             *)
(*   - two processes doing the guard's unsynchronised read-modify-write.   *)
(* Times are epoch milliseconds, as in the source.                         *)
(***************************************************************************)
EXTENDS Integers, Sequences, FiniteSets, TLC

(***************************************************************************)
(* Bounds of the model.                                                    *)
(***************************************************************************)
\* Guard operations in one behaviour of the full-alphabet guard specification.
MaxOps == 3
\* Guard operations in one behaviour of the breaker specification.
MaxBreakerOps == 6
\* Guard operations in one behaviour of the rate-cap specification.
MaxCapOps == 4
\* Reading of Date.now() before the first operation.
StartMs == 100000000

(***************************************************************************)
(* Optional values: an absent field (undefined) is <<>>, a present one a   *)
(* 1-tuple.  An ISO-8601 timestamp string is the 1-tuple of its instant.   *)
(***************************************************************************)
Undefined == <<>>

\* isoNow: new Date(nowMs).toISOString()
IsoNow(nowMs) == <<nowMs>>

\* parseIsoOrZero: 0 for a missing value, else the instant of the string
ParseIsoOrZero(value) == IF value = Undefined THEN 0 ELSE value[1]

Max2(a, b) == IF a >= b THEN a ELSE b
Max3(a, b, c) == Max2(a, Max2(b, c))

(***************************************************************************)
(* Types of the guard.                                                     *)
(***************************************************************************)
Providers == {"chatgpt", "yuanbao", "deepseek", "doubao"}
Modes == {"headed", "headless"}
RiskOutcomeKinds ==
  {"success", "paused_generation", "captcha_or_verification", "http_429",
   "auth_required", "timeout", "other_error"}

\* Prompts of the model with the first 16 hex digits of their SHA-256.
Prompts == {"same prompt", "new prompt"}
HashPrompt(prompt) ==
  CASE prompt = "same prompt" -> "66fddd00ccb86fb2"
    [] prompt = "new prompt" -> "c8e794dbda1ae17d"
    [] prompt = "hello risk guard" -> "4d0189e9c75e869b"
    [] OTHER -> "758d61f26a444483"

DEFAULT_POLICY ==
  [ minIntervalMsHeaded |-> 60000,
    minIntervalMsHeadless |-> 180000,
    attemptsWindowMs |-> 30 * 60000,
    attemptsLimit |-> 5,
    headlessAttemptsWindowMs |-> 60 * 60000,
    headlessAttemptsLimit |-> 3,
    samePromptWindowMs |-> 12 * 60 * 60000,
    samePromptLimit |-> 2,
    cooldownOnRateLimitMs |-> 15 * 60000,
    cooldownByOutcomeMs |->
      [ paused_generation |-> 20 * 60000,
        captcha_or_verification |-> 45 * 60000,
        http_429 |-> 60 * 60000,
        auth_required |-> 10 * 60000 ],
    breakerConsecutiveRiskThreshold |-> 3,
    breakerDurationMs |-> 6 * 60 * 60000 ]

POLICY_BY_PROVIDER ==
  [ yuanbao |->
      [ minIntervalMsHeaded |-> 3 * 60000,
        minIntervalMsHeadless |-> 10 * 60000,
        attemptsWindowMs |-> 30 * 60000,
        attemptsLimit |-> 3,
        headlessAttemptsWindowMs |-> 60 * 60000,
        headlessAttemptsLimit |-> 2,
        samePromptWindowMs |-> 24 * 60 * 60000,
        samePromptLimit |-> 1,
        cooldownOnRateLimitMs |-> 30 * 60000 ],
    deepseek |->
      [ minIntervalMsHeaded |-> 2 * 60000,
        minIntervalMsHeadless |-> 5 * 60000,
        attemptsLimit |-> 4,
        headlessAttemptsLimit |-> 2,
        cooldownOnRateLimitMs |-> 20 * 60000 ],
    doubao |->
      [ minIntervalMsHeaded |-> 2 * 60000,
        minIntervalMsHeadless |-> 5 * 60000,
        attemptsLimit |-> 4,
        headlessAttemptsLimit |-> 2,
        cooldownOnRateLimitMs |-> 25 * 60000 ] ]

\* { ...base, ...over }
Spread(base, over) ==
  [k \in DOMAIN base |-> IF k \in DOMAIN over THEN over[k] ELSE base[k]]

GetPolicy(provider) ==
  IF provider \in DOMAIN POLICY_BY_PROVIDER
  THEN Spread(DEFAULT_POLICY, POLICY_BY_PROVIDER[provider])
  ELSE DEFAULT_POLICY

IsRiskOutcome(kind) ==
  \/ kind = "paused_generation"
  \/ kind = "captcha_or_verification"
  \/ kind = "http_429"
  \/ kind = "auth_required"

DefaultProviderState ==
  [ lastAttemptAt |-> Undefined,
    attempts |-> <<>>,
    riskEvents |-> <<>>,
    consecutiveRiskEvents |-> 0,
    cooldownUntil |-> Undefined,
    breakerUntil |-> Undefined ]

(***************************************************************************)
(* The persisted state file: the "providers" object of RiskStateFile, a    *)
(* function from the providers that have an entry to ProviderRiskState.    *)
(* A missing file loads as the empty object.                               *)
(***************************************************************************)
EmptyProviders == [q \in {} |-> DefaultProviderState]

\* A file that loadRiskState cannot use is the record of why (unusable) and
\* of the providers object it would hold (was).
\* Faulty variant: the providers of the file are taken whatever the rest says.
LoadRiskState_lenient(f) ==
  IF "unusable" \in DOMAIN f THEN f.was ELSE f

\* loadRiskState: the providers of a version-1 file, else the empty object
LoadRiskState(f) ==
  IF "unusable" \in DOMAIN f THEN EmptyProviders ELSE f

\* state.providers[provider] ?? defaultProviderState()
ProviderStateOf(providers, provider) ==
  IF provider \in DOMAIN providers THEN providers[provider] ELSE DefaultProviderState

\* state.providers[provider] = providerState
PutProvider(providers, provider, providerState) ==
  [q \in (DOMAIN providers) \cup {provider} |->
     IF q = provider THEN providerState ELSE providers[q]]

AttemptsRetentionMs(policy) ==
  Max3(policy.attemptsWindowMs, policy.headlessAttemptsWindowMs, policy.samePromptWindowMs)

RiskRetentionMs(policy) == Max2(policy.breakerDurationMs, 24 * 60 * 60000)

\* Faulty variant: the risk counter starts again once the breaker window is over.
PruneState_expire(providerState, nowMs, policy) ==
  LET keepAttempt(attempt) ==
        ParseIsoOrZero(attempt.at) >= nowMs - AttemptsRetentionMs(policy)
      keepEvent(event) ==
        ParseIsoOrZero(event.at) >= nowMs - RiskRetentionMs(policy)
  IN [providerState EXCEPT
        !.attempts = SelectSeq(@, keepAttempt),
        !.riskEvents = SelectSeq(@, keepEvent),
        !.consecutiveRiskEvents =
          IF providerState.breakerUntil # Undefined
             /\ nowMs >= ParseIsoOrZero(providerState.breakerUntil)
          THEN 0 ELSE @]

\* Faulty variant: an entry exactly as old as its window is dropped.
PruneState_strict(providerState, nowMs, policy) ==
  LET keepAttempt(attempt) ==
        ParseIsoOrZero(attempt.at) > nowMs - AttemptsRetentionMs(policy)
      keepEvent(event) ==
        ParseIsoOrZero(event.at) > nowMs - RiskRetentionMs(policy)
  IN [providerState EXCEPT
        !.attempts = SelectSeq(@, keepAttempt),
        !.riskEvents = SelectSeq(@, keepEvent)]

PruneState(providerState, nowMs, policy) ==
  LET keepAttempt(attempt) ==
        ParseIsoOrZero(attempt.at) >= nowMs - AttemptsRetentionMs(policy)
      keepEvent(event) ==
        ParseIsoOrZero(event.at) >= nowMs - RiskRetentionMs(policy)
  IN [providerState EXCEPT
        !.attempts = SelectSeq(@, keepAttempt),
        !.riskEvents = SelectSeq(@, keepEvent)]

(***************************************************************************)
(* GuardDecision.  A message is the pair <<provider, text after the        *)
(* provider name>>.                                                        *)
(***************************************************************************)
MsgBreaker == "risk breaker is active. Retry later."
MsgCooldown == "is cooling down to avoid risk control."
MsgMinInterval(mode) ==
  IF mode = "headless"
  THEN "minimum interval not reached (headless)."
  ELSE "minimum interval not reached (headed)."
MsgRateWindow == "request rate is too high in recent window."
MsgHeadlessRate == "headless request rate is too high."
MsgRepeatedPrompt == "repeated prompt pattern detected."

\* Faulty variant: a denial that tells no wait.
Denied_noWait(provider, waitMs, text) ==
  [allowed |-> FALSE, waitMs |-> Undefined, message |-> <<provider, text>>]

Denied(provider, waitMs, text) ==
  [allowed |-> FALSE, waitMs |-> <<waitMs>>, message |-> <<provider, text>>]

Allowed == [allowed |-> TRUE, waitMs |-> Undefined, message |-> Undefined]

AttemptsInWindow(providerState, policy, nowMs) ==
  LET inWindow(attempt) ==
        ParseIsoOrZero(attempt.at) >= nowMs - policy.attemptsWindowMs
  IN SelectSeq(providerState.attempts, inWindow)

\* Faulty variant: attempts of either mode count against the headless cap.
HeadlessAttempts_anyMode(providerState, policy, nowMs) ==
  LET inWindow(attempt) ==
        ParseIsoOrZero(attempt.at) >= nowMs - policy.headlessAttemptsWindowMs
  IN SelectSeq(providerState.attempts, inWindow)

HeadlessAttempts(providerState, policy, nowMs) ==
  LET inWindow(attempt) ==
        /\ attempt.mode = "headless"
        /\ ParseIsoOrZero(attempt.at) >= nowMs - policy.headlessAttemptsWindowMs
  IN SelectSeq(providerState.attempts, inWindow)

\* Faulty variant: no attempt counts as one with the same prompt.
SamePromptAttempts_none(providerState, policy, nowMs, promptHash) == <<>>

SamePromptAttempts(providerState, policy, nowMs, promptHash) ==
  LET inWindow(attempt) ==
        /\ attempt.promptHash = promptHash
        /\ ParseIsoOrZero(attempt.at) >= nowMs - policy.samePromptWindowMs
  IN SelectSeq(providerState.attempts, inWindow)

\* Faulty variant: the headed interval whatever the mode.
MinIntervalMs_headed(policy, mode) == policy.minIntervalMsHeaded

MinIntervalMs(policy, mode) ==
  IF mode = "headless" THEN policy.minIntervalMsHeadless ELSE policy.minIntervalMsHeaded

\* Faulty variant: a cap denial sets no cooldown.
RateLimitCooldown_none(providerState, policy, nowMs) == providerState

\* providerState.cooldownUntil = isoNow(nowMs + policy.cooldownOnRateLimitMs)
RateLimitCooldown(providerState, policy, nowMs) ==
  [providerState EXCEPT !.cooldownUntil = IsoNow(nowMs + policy.cooldownOnRateLimitMs)]

\* enforceRateLimits: the decision and the (possibly mutated) provider state
EnforceRateLimits(provider, providerState, policy, nowMs, mode, promptHash) ==
  LET breakerUntilMs == ParseIsoOrZero(providerState.breakerUntil)
      cooldownUntilMs == ParseIsoOrZero(providerState.cooldownUntil)
      lastAttemptMs == ParseIsoOrZero(providerState.lastAttemptAt)
      minIntervalMs == MinIntervalMs(policy, mode)
      keep(decision) == [decision |-> decision, providerState |-> providerState]
      cool(decision) ==
        [decision |-> decision,
         providerState |-> RateLimitCooldown(providerState, policy, nowMs)]
  IN
  IF breakerUntilMs > nowMs
    THEN keep(Denied(provider, breakerUntilMs - nowMs, MsgBreaker))
  ELSE IF cooldownUntilMs > nowMs
    THEN keep(Denied(provider, cooldownUntilMs - nowMs, MsgCooldown))
  ELSE IF lastAttemptMs > 0 /\ nowMs - lastAttemptMs < minIntervalMs
    THEN keep(Denied(provider, minIntervalMs - (nowMs - lastAttemptMs),
                     MsgMinInterval(mode)))
  ELSE IF Len(AttemptsInWindow(providerState, policy, nowMs)) >= policy.attemptsLimit
    THEN cool(Denied(provider, policy.cooldownOnRateLimitMs, MsgRateWindow))
  ELSE IF /\ mode = "headless"
          /\ Len(HeadlessAttempts(providerState, policy, nowMs))
               >= policy.headlessAttemptsLimit
    THEN cool(Denied(provider, policy.cooldownOnRateLimitMs, MsgHeadlessRate))
  ELSE IF Len(SamePromptAttempts(providerState, policy, nowMs, promptHash))
            >= policy.samePromptLimit
    THEN cool(Denied(provider, policy.cooldownOnRateLimitMs, MsgRepeatedPrompt))
  ELSE keep(Allowed)

\* Faulty variant: asking for permission counts as an attempt.
EvaluateRiskGuard_counts(providers, provider, mode, prompt, nowMs) ==
  LET policy == GetPolicy(provider)
      pruned == PruneState(ProviderStateOf(providers, provider), nowMs, policy)
      r == EnforceRateLimits(provider, pruned, policy, nowMs, mode, HashPrompt(prompt))
  IN [decision |-> r.decision,
      providers |-> PutProvider(providers, provider,
                                [r.providerState EXCEPT !.lastAttemptAt = IsoNow(nowMs)])]

\* evaluateRiskGuard on a loaded file: the decision and the file it saves
EvaluateRiskGuard(providers, provider, mode, prompt, nowMs) ==
  LET policy == GetPolicy(provider)
      pruned == PruneState(ProviderStateOf(providers, provider), nowMs, policy)
      r == EnforceRateLimits(provider, pruned, policy, nowMs, mode, HashPrompt(prompt))
  IN [decision |-> r.decision,
      providers |-> PutProvider(providers, provider, r.providerState)]

\* Faulty variant: the attempt start also clears the risk counter.
RecordRiskAttemptStart_reset(providers, provider, mode, prompt, nowMs) ==
  LET policy == GetPolicy(provider)
      pruned == PruneState(ProviderStateOf(providers, provider), nowMs, policy)
      started ==
        [pruned EXCEPT
           !.lastAttemptAt = IsoNow(nowMs),
           !.consecutiveRiskEvents = 0,
           !.attempts = Append(@, [at |-> IsoNow(nowMs), mode |-> mode,
                                   promptHash |-> HashPrompt(prompt)])]
  IN PutProvider(providers, provider, started)

\* recordRiskAttemptStart on a loaded file: the file it saves
RecordRiskAttemptStart(providers, provider, mode, prompt, nowMs) ==
  LET policy == GetPolicy(provider)
      pruned == PruneState(ProviderStateOf(providers, provider), nowMs, policy)
      started ==
        [pruned EXCEPT
           !.lastAttemptAt = IsoNow(nowMs),
           !.attempts = Append(@, [at |-> IsoNow(nowMs), mode |-> mode,
                                   promptHash |-> HashPrompt(prompt)])]
  IN PutProvider(providers, provider, started)

\* Faulty variant: a risk outcome asks for no cooldown.
CooldownMs_zero(policy, kind) == 0

\* policy.cooldownByOutcomeMs[kind] ?? policy.cooldownOnRateLimitMs
CooldownMs(policy, kind) ==
  IF kind \in DOMAIN policy.cooldownByOutcomeMs
  THEN policy.cooldownByOutcomeMs[kind]
  ELSE policy.cooldownOnRateLimitMs

CandidateCooldownUntilMs(policy, kind, nowMs) == nowMs + CooldownMs(policy, kind)

\* Faulty variant: the new cooldown replaces a longer one already stored.
ExtendCooldown_overwrite(current, candidateMs) == IsoNow(candidateMs)

\* cooldownUntil after a risk outcome: replaced only by a later instant
ExtendCooldown(current, candidateMs) ==
  IF candidateMs > ParseIsoOrZero(current) THEN IsoNow(candidateMs) ELSE current

\* Faulty variant: the breaker duration is taken for the instant it ends at.
CandidateBreakerUntilMs_noNow(policy, nowMs) == policy.breakerDurationMs

CandidateBreakerUntilMs(policy, nowMs) == nowMs + policy.breakerDurationMs

\* breakerUntil once the threshold is reached: replaced only by a later instant
ExtendBreaker(current, candidateMs) ==
  IF candidateMs > ParseIsoOrZero(current) THEN IsoNow(candidateMs) ELSE current

\* Faulty variant: an outcome that is neither success nor risk keeps the count.
CountOutcome_keep(consecutiveRiskEvents, kind) ==
  IF IsRiskOutcome(kind) THEN consecutiveRiskEvents + 1 ELSE consecutiveRiskEvents

\* consecutiveRiskEvents after a non-success outcome of this kind
CountOutcome(consecutiveRiskEvents, kind) ==
  IF IsRiskOutcome(kind) THEN consecutiveRiskEvents + 1 ELSE 0

\* Faulty variant: the breaker needs one risk outcome more than the threshold.
BreakerReached_above(providerState, policy) ==
  providerState.consecutiveRiskEvents > policy.breakerConsecutiveRiskThreshold

\* the breaker test of recordRiskOutcome
BreakerReached(providerState, policy) ==
  providerState.consecutiveRiskEvents >= policy.breakerConsecutiveRiskThreshold

\* Faulty variant: a success leaves the counter as it was.
RecordSuccess_keep(pruned) == pruned

\* recordRiskOutcome, kind = success
RecordSuccess(pruned) == [pruned EXCEPT !.consecutiveRiskEvents = 0]

\* recordRiskOutcome on one provider's pruned state
RecordOutcomeState(pruned, policy, kind, nowMs) ==
  IF kind = "success"
  THEN RecordSuccess(pruned)
  ELSE
    LET logged ==
          [pruned EXCEPT
             !.riskEvents = Append(@, [at |-> IsoNow(nowMs), kind |-> kind])]
        counted ==
          [logged EXCEPT
             !.consecutiveRiskEvents = CountOutcome(@, kind),
             !.cooldownUntil =
               IF IsRiskOutcome(kind)
               THEN ExtendCooldown(@, CandidateCooldownUntilMs(policy, kind, nowMs))
               ELSE @]
    IN IF BreakerReached(counted, policy)
       THEN [counted EXCEPT
               !.breakerUntil = ExtendBreaker(@, CandidateBreakerUntilMs(policy, nowMs))]
       ELSE counted

\* recordRiskOutcome on a loaded file: the file it saves
RecordRiskOutcome(providers, provider, kind, nowMs) ==
  LET policy == GetPolicy(provider)
      pruned == PruneState(ProviderStateOf(providers, provider), nowMs, policy)
  IN PutProvider(providers, provider, RecordOutcomeState(pruned, policy, kind, nowMs))

(***************************************************************************)
(* State.                                                                  *)
(*   now      the last reading of Date.now()                               *)
(*   file     the providers object of the persisted risk-state file        *)
(*   opCount  guard operations done so far                                 *)
(*   lastOp   the last guard operation: its arguments and its decision     *)
(*   audit    per provider, what the outcome history calls for,            *)
(*            independently of the stored counters (history variable)      *)
(*   pc       where the running runChat call stands                        *)
(*   chat     the locals of the running runChat call                       *)
(*   sessions the browser sessions the call has launched, in launch order  *)
(*   runs     runChat calls started so far                                 *)
(*   procs    per process, the guard operation it is in the middle of      *)
(*   cap      the locals of the running captureResponse call               *)
(*   lk       the profile lock file and the processes that take it         *)
(*   snap     the locals of the running snapshot extraction with retry     *)
(*   crawl    the locals of the running crawlSources call                  *)
(*   cls      a message and the kinds the outcome classifier gave for it   *)
(***************************************************************************)
VARIABLES now, file, opCount, lastOp, audit, pc, chat, sessions, runs, procs, cap, lk,
          snap, crawl, cls

guardVars == <<now, file, opCount, lastOp, audit>>

chatVars == <<pc, chat, sessions, runs>>

\* no browser session (null)
NoBrowser == 0

\* no error in flight, no response captured
NoError == <<>>
NoCapture == <<>>

\* the callees of runChat that are counted
Callees ==
  {"evaluateRiskGuard", "createSession", "recordRiskAttemptStart", "launchBrowser",
   "submitPrompt", "captureResponse"}

NoCalls == [callee \in Callees |-> 0]

\* one more call of callee
Counted(c, callee) == [c EXCEPT !.calls[callee] = @ + 1]

IdleChat ==
  [ provider |-> "none",
    headless |-> FALSE,          \* const headless
    activeHeadless |-> FALSE,
    stage |-> "init",
    decision |-> Allowed,        \* riskDecision
    browser |-> NoBrowser,       \* runChat's browser variable: an index of sessions
    loggedIn |-> FALSE,
    attempt |-> 0,
    captured |-> NoCapture,
    attemptError |-> NoError,    \* the error caught inside the attempt loop
    error |-> NoError,           \* the error runChat throws
    result |-> "none",           \* "returned" or "threw" once the call is over
    outcomes |-> <<>>,           \* kinds handed to recordRiskOutcome by this call
    rvReturn |-> "none",         \* resolveHumanVerificationIfNeeded: where it returns to,
    rvBrowser |-> NoBrowser,     \*   its local browser
    rvActiveHeadless |-> FALSE,  \*   and its local activeHeadless
    rvWaited |-> 0,              \*   and the time its wait for the verification took
    polled |-> 0,                \* time spent in captureResponse calls that ran to their timeout
    blocked |-> <<>>,            \* the parts of the message thrown on a guard denial
    loginOn |-> {},              \* the sessions on which isLoggedIn has said yes (history)
    calls |-> NoCalls ]          \* calls made so far, by callee (history)

ChatIdle ==
  /\ pc = "idle"
  /\ chat = IdleChat
  /\ sessions = <<>>
  /\ runs = 0


NoOp ==
  [op |-> "none", provider |-> "none", mode |-> "none", prompt |-> "none",
   kind |-> "none", decision |-> Allowed]

NoAudit ==
  [ run |-> 0,          \* risk-bearing outcomes recorded back to back, up to now
    tripUntil |-> 0,    \* latest (time of a third-in-a-row risk outcome) + breaker duration
    sinceSuccess |-> 0, \* risk-bearing outcomes since the last success
    everThree |-> FALSE,\* sinceSuccess has reached the threshold at some time
    trippedNoSuccess |-> FALSE, \* run has reached the threshold and no success came since
    risks |-> 0,        \* risk-bearing outcomes recorded in all
    capUntil |-> 0 ]    \* latest (time of a cap denial) + rate-limit cooldown

AuditOutcome(a, policy, kind, nowMs) ==
  LET threshold == policy.breakerConsecutiveRiskThreshold
      run == IF IsRiskOutcome(kind) THEN a.run + 1 ELSE 0
      since == IF kind = "success" THEN 0
               ELSE IF IsRiskOutcome(kind) THEN a.sinceSuccess + 1
               ELSE a.sinceSuccess
  IN [a EXCEPT
        !.run = run,
        !.tripUntil = IF run >= threshold
                      THEN Max2(@, nowMs + policy.breakerDurationMs) ELSE @,
        !.sinceSuccess = since,
        !.everThree = @ \/ since >= threshold,
        !.trippedNoSuccess = IF kind = "success" THEN FALSE ELSE @ \/ run >= threshold,
        !.risks = IF IsRiskOutcome(kind) THEN @ + 1 ELSE @]

CapMessages == {MsgRateWindow, MsgHeadlessRate, MsgRepeatedPrompt}

AuditDecision(a, policy, decision, nowMs) ==
  IF ~decision.allowed /\ decision.message[2] \in CapMessages
  THEN [a EXCEPT !.capUntil = Max2(@, nowMs + policy.cooldownOnRateLimitMs)]
  ELSE a

\* An answer text is the sequence of the pieces it arrived in ('' is <<>>);
\* it is drawn as extracted, that is normalized and trimmed.
EmptyText == <<>>

\* a turn snapshot: the answer text and what else its signature covers
\* (citation ids, source count, sources button, block count)
EmptySnapshot == [answerText |-> EmptyText, markers |-> {}]

NoSnapshot == <<>>
NoResponse == <<>>

IdleCapture ==
  [ dest |-> "none",
    phase |-> "idle",            \* waiting (for the turn), polling, returned, threw
    polls |-> 0,                 \* elapsed time, in poll intervals
    baseline |-> EmptySnapshot,
    sawNewTurn |-> FALSE,
    lastSnapshot |-> EmptySnapshot,
    lastSignature |-> <<>>,
    lastStreamedAnswer |-> EmptyText,
    stableCount |-> 0,
    completed |-> FALSE,         \* the loop was left by break
    response |-> NoResponse,     \* the CapturedResponse returned
    error |-> NoError,           \* the error thrown
    emitted |-> EmptyText,       \* the chunk handed to onChunk at the last poll
    prev |-> NoSnapshot,         \* the last poll: snapshot and streaming indicator (history)
    sameRun |-> 0,               \* polls in a row with the signature of the one before
    cleanRun |-> 0,              \* ... and no streaming indicator visible
    everDiffered |-> FALSE ]     \* some poll's signature differed from the baseline's

CaptureIdle == cap = IdleCapture

\* the processes that take the profile lock, and the process id a dead
\* process has left in a stale lock file
LockProcs == {1, 2}
DeadPid == 0

NoLockFile == <<>>
NoLockId == <<>>

\* the lock file a dead process has left
StaleLockFile == <<[pid |-> DeadPid, lockId |-> <<DeadPid, 1>>, written |-> TRUE]>>

\* one process at the profile lock: where it is in acquireProfileLock or in
\* release, its lockId, the turns of the loop it has made, the locks it took
IdleLockProc ==
  [ at |-> "idle", lockId |-> NoLockId, turns |-> 0, acquired |-> 0,
    exit |-> "none" ]    \* how launchBrowser or close() ended, once release is through

IdleLock == [ file |-> NoLockFile, proc |-> [p \in LockProcs |-> IdleLockProc] ]

LockIdle == lk = IdleLock

\* no snapshot extraction under way
IdleSnap ==
  [ at |-> "idle",               \* idle, extracting, waiting (backoff), returned, threw
    attempt |-> 0,
    lastError |-> <<>>,          \* the error caught last
    closed |-> FALSE,            \* page.isClosed() as read in the catch
    error |-> <<>>,              \* the error thrown to the caller
    tries |-> 0,                 \* calls of extractCurrentTurnSnapshot (history)
    waited |-> 0 ]               \* the backoff waited in all (history)

SnapIdle == snap = IdleSnap

\* no crawl under way
IdleCrawl ==
  [ phase |-> "idle",            \* idle, running, returned
    urls |-> <<>>,               \* the argument
    uniqueUrls |-> <<>>,
    limit |-> 0,
    nextIndex |-> 0,
    results |-> <<>>,            \* per index: <<>> (a hole) or <<item>>
    workers |-> <<>>,            \* per runOne: where it stands and its index
    output |-> <<>>,
    fetched |-> <<>>,            \* the URLs fetched, in the order of the calls (history)
    failedUrls |-> {},           \* the URLs whose fetch or extraction threw (history)
    maxBusy |-> 0 ]              \* the most fetches in flight at once (history)

CrawlIdle == crawl = IdleCrawl

\* nothing to classify
IdleClassifier == [ from |-> "none", message |-> {}, kinds |-> <<>> ]

ClassifierIdle == cls = IdleClassifier


Procs == {"p1", "p2"}

IdleProc == [at |-> "idle", op |-> NoOp, nowMs |-> 0, state |-> EmptyProviders]

RaceIdle == procs = [p \in Procs |-> IdleProc]

GuardInit ==
  /\ now = StartMs
  /\ file = EmptyProviders
  /\ opCount = 0
  /\ lastOp = NoOp
  /\ audit = [q \in Providers |-> NoAudit]
  /\ ChatIdle
  /\ RaceIdle
  /\ CaptureIdle
  /\ LockIdle
  /\ SnapIdle
  /\ CrawlIdle
  /\ ClassifierIdle

(***************************************************************************)
(* The guard's three operations, each one whole call: Date.now(), load,    *)
(* prune, decide or record, save.  dt is the time since the last reading.  *)
(***************************************************************************)
Evaluate(provider, mode, prompt, dt) ==
  LET nowMs == now + dt
      r == EvaluateRiskGuard(LoadRiskState(file), provider, mode, prompt, nowMs)
  IN /\ now' = nowMs
     /\ file' = r.providers
     /\ opCount' = opCount + 1
     /\ lastOp' = [op |-> "evaluate", provider |-> provider, mode |-> mode,
                   prompt |-> prompt, kind |-> "none", decision |-> r.decision]
     /\ audit' = [audit EXCEPT ![provider] =
                    AuditDecision(@, GetPolicy(provider), r.decision, nowMs)]
     /\ UNCHANGED <<chatVars, procs, cap, lk, snap, crawl, cls>>

RecordAttemptStart(provider, mode, prompt, dt) ==
  LET nowMs == now + dt
  IN /\ now' = nowMs
     /\ file' = RecordRiskAttemptStart(LoadRiskState(file), provider, mode, prompt, nowMs)
     /\ opCount' = opCount + 1
     /\ lastOp' = [op |-> "recordAttemptStart", provider |-> provider, mode |-> mode,
                   prompt |-> prompt, kind |-> "none", decision |-> Allowed]
     /\ UNCHANGED <<audit, chatVars, procs, cap, lk, snap, crawl, cls>>

RecordOutcome(provider, kind, dt) ==
  LET nowMs == now + dt
  IN /\ now' = nowMs
     /\ file' = RecordRiskOutcome(LoadRiskState(file), provider, kind, nowMs)
     /\ opCount' = opCount + 1
     /\ lastOp' = [op |-> "recordOutcome", provider |-> provider, mode |-> "none",
                   prompt |-> "none", kind |-> kind, decision |-> Allowed]
     /\ audit' = [audit EXCEPT ![provider] =
                    AuditOutcome(@, GetPolicy(provider), kind, nowMs)]
     /\ UNCHANGED <<chatVars, procs, cap, lk, snap, crawl, cls>>

(***************************************************************************)
(* Persisted states a process may find on start: no file yet, or the file  *)
(* left by two rate-limited attempts two hours before (each computed by    *)
(* the guard's own operations).                                            *)
(***************************************************************************)
SeedProvider == "yuanbao"
SeedMs == StartMs - 2 * 60 * 60000

TwoRisksEarlier ==
  RecordRiskOutcome(RecordRiskOutcome(EmptyProviders, SeedProvider, "http_429", SeedMs),
                    SeedProvider, "http_429", SeedMs)

TwoRisksAudit ==
  [q \in Providers |->
     IF q = SeedProvider
     THEN AuditOutcome(AuditOutcome(NoAudit, GetPolicy(q), "http_429", SeedMs),
                       GetPolicy(q), "http_429", SeedMs)
     ELSE NoAudit]

SeededInit ==
  /\ now = StartMs
  /\ opCount = 0
  /\ lastOp = NoOp
  /\ ChatIdle
  /\ RaceIdle
  /\ CaptureIdle
  /\ LockIdle
  /\ SnapIdle
  /\ CrawlIdle
  /\ ClassifierIdle
  /\ \/ file = EmptyProviders /\ audit = [q \in Providers |-> NoAudit]
     \/ file = TwoRisksEarlier /\ audit = TwoRisksAudit

(***************************************************************************)
(* Spec: any sequence of guard calls of every kind, mode and prompt.       *)
(***************************************************************************)
GuardProviders == {"yuanbao"}
Steps == {0, 4 * 60000}

Init == SeededInit

Next ==
  /\ opCount < MaxOps
  /\ \E provider \in GuardProviders, dt \in Steps :
       \/ \E mode \in Modes, prompt \in Prompts : Evaluate(provider, mode, prompt, dt)
       \/ \E mode \in Modes, prompt \in Prompts :
            RecordAttemptStart(provider, mode, prompt, dt)
       \/ \E kind \in RiskOutcomeKinds : RecordOutcome(provider, kind, dt)

vars == <<now, file, opCount, lastOp, audit, pc, chat, sessions, runs, procs, cap, lk, snap, crawl, cls>>

Spec == Init /\ [][Next]_vars

(***************************************************************************)
(* SpecBreaker: outcome histories long enough to trip the breaker, to      *)
(* reset the counter in between and to outlive the breaker window.         *)
(***************************************************************************)
BreakerProviders == {"yuanbao"}
BreakerKinds == {"captcha_or_verification", "success", "timeout"}
BreakerCalls == {<<"headed", "new prompt">>, <<"headless", "same prompt">>}
BreakerSteps == {0, 3 * 60 * 60000}

NextBreaker ==
  /\ opCount < MaxBreakerOps
  /\ \E provider \in BreakerProviders, dt \in BreakerSteps :
       \/ \E call \in BreakerCalls : Evaluate(provider, call[1], call[2], dt)
       \/ \E kind \in BreakerKinds : RecordOutcome(provider, kind, dt)

SpecBreaker == GuardInit /\ [][NextBreaker]_vars

(***************************************************************************)
(* SpecCaps: attempts dense enough to hit the attempt caps and the         *)
(* duplicate-prompt cap, with rate-limited outcomes in between.            *)
(***************************************************************************)
CapProviders == {"yuanbao"}
CapKinds == {"http_429"}
CapSteps == {0, 11 * 60000}

NextCaps ==
  /\ opCount < MaxCapOps
  /\ \E provider \in CapProviders, dt \in CapSteps :
       \/ \E mode \in Modes, prompt \in Prompts : Evaluate(provider, mode, prompt, dt)
       \/ \E mode \in Modes, prompt \in Prompts :
            RecordAttemptStart(provider, mode, prompt, dt)
       \/ \E kind \in CapKinds : RecordOutcome(provider, kind, dt)

SpecCaps == SeededInit /\ [][NextCaps]_vars

(***************************************************************************)
(* SpecInterval: attempts half a minute apart on a provider with the       *)
(* default policy, for the minimum interval between two requests.          *)
(***************************************************************************)
MaxIntervalOps == 3

IntervalProviders == {"chatgpt"}
IntervalKinds == {"success", "http_429"}
IntervalSteps == {0, 30000}

NextInterval ==
  /\ opCount < MaxIntervalOps
  /\ \E provider \in IntervalProviders, dt \in IntervalSteps :
       \/ \E mode \in Modes, prompt \in Prompts : Evaluate(provider, mode, prompt, dt)
       \/ \E mode \in Modes, prompt \in Prompts :
            RecordAttemptStart(provider, mode, prompt, dt)
       \/ \E kind \in IntervalKinds : RecordOutcome(provider, kind, dt)

SpecInterval == GuardInit /\ [][NextInterval]_vars

(***************************************************************************)
(* SpecPrune: guard calls half a day apart on two providers, so that       *)
(* stored attempts and risk events reach the edge of their retention       *)
(* windows and pass it.                                                    *)
(***************************************************************************)
MaxPruneOps == 4

PruneProviders == {"chatgpt", "yuanbao"}
PruneKinds == {"success", "http_429"}
PrunePrompts == {"same prompt"}
PruneSteps == {0, 12 * 60 * 60000}

NextPrune ==
  /\ opCount < MaxPruneOps
  /\ \E provider \in PruneProviders, dt \in PruneSteps :
       \/ \E mode \in Modes, prompt \in PrunePrompts : Evaluate(provider, mode, prompt, dt)
       \/ \E mode \in Modes, prompt \in PrunePrompts :
            RecordAttemptStart(provider, mode, prompt, dt)
       \/ \E kind \in PruneKinds : RecordOutcome(provider, kind, dt)

SpecPrune == GuardInit /\ [][NextPrune]_vars

(***************************************************************************)
(* SpecLoad: guard calls that find a state file they cannot use, or the    *)
(* file left by three rate-limited requests to one provider and an attempt *)
(* on another, just before.                                                *)
(***************************************************************************)
MaxLoadOps == 3

LoadProviders == {"yuanbao", "deepseek"}
LoadKinds == {"success", "http_429"}
LoadPrompts == {"same prompt"}
LoadSteps == {0, 4 * 60000}

BreakerAndAttempt ==
  RecordRiskAttemptStart(
    RecordRiskOutcome(
      RecordRiskOutcome(
        RecordRiskOutcome(EmptyProviders, "yuanbao", "http_429", StartMs),
        "yuanbao", "http_429", StartMs),
      "yuanbao", "http_429", StartMs),
    "deepseek", "headless", "same prompt", StartMs)

\* no file; a file that cannot be read; text that is no JSON; another
\* version; no providers object
UnusableFiles ==
  { [unusable |-> "missing", was |-> EmptyProviders] }
  \cup { [unusable |-> why, was |-> BreakerAndAttempt] :
           why \in {"unreadable", "not JSON", "version 2", "no providers"} }

LoadInit ==
  /\ now = StartMs
  /\ file \in UnusableFiles \cup {BreakerAndAttempt}
  /\ opCount = 0
  /\ lastOp = NoOp
  /\ audit = [q \in Providers |-> NoAudit]
  /\ ChatIdle
  /\ RaceIdle
  /\ CaptureIdle
  /\ LockIdle
  /\ SnapIdle
  /\ CrawlIdle
  /\ ClassifierIdle

NextLoad ==
  /\ opCount < MaxLoadOps
  /\ \E provider \in LoadProviders, dt \in LoadSteps :
       \/ \E mode \in Modes, prompt \in LoadPrompts : Evaluate(provider, mode, prompt, dt)
       \/ \E mode \in Modes, prompt \in LoadPrompts :
            RecordAttemptStart(provider, mode, prompt, dt)
       \/ \E kind \in LoadKinds : RecordOutcome(provider, kind, dt)

SpecLoad == LoadInit /\ [][NextLoad]_vars

(***************************************************************************)
(* runChat.  One call is run step by step: pc is the statement it stands   *)
(* at, and every await on the browser, the page or the provider adapter    *)
(* is answered by the environment (\E over its possible results).          *)
(*                                                                         *)
(* An error message is the set of phrase groups it contains, the groups    *)
(* being the ones the classifiers look for:                                *)
(*   "captcha"         验证码 / captcha / 人机验证 / verify                *)
(*   "429"             http 429 / 429 / too many requests                  *)
(*   "login"           not logged in / login                               *)
(*   "timeout"         timeout / timed out                                 *)
(*   "paused_zh"       已暂停生成 / 暂停生成                               *)
(*   "paused_en"       paused                                              *)
(*   "security_check"  security check / behavior check                     *)
(***************************************************************************)
\* Faulty variant: the rate-limit phrases are looked up first.
DetectRiskOutcomeFromError_429First(message) ==
  IF "429" \in message THEN "http_429"
  ELSE IF "captcha" \in message THEN "captcha_or_verification"
  ELSE IF "login" \in message THEN "auth_required"
  ELSE IF "timeout" \in message THEN "timeout"
  ELSE IF "paused_zh" \in message \/ "paused_en" \in message THEN "paused_generation"
  ELSE "other_error"

DetectRiskOutcomeFromError(message) ==
  IF "captcha" \in message THEN "captcha_or_verification"
  ELSE IF "429" \in message THEN "http_429"
  ELSE IF "login" \in message THEN "auth_required"
  ELSE IF "timeout" \in message THEN "timeout"
  ELSE IF "paused_zh" \in message \/ "paused_en" \in message THEN "paused_generation"
  ELSE "other_error"

DetectRiskOutcomeFromResponse(text) ==
  IF "paused_zh" \in text THEN "paused_generation"
  ELSE IF "captcha" \in text THEN "captcha_or_verification"
  ELSE "success"

IsHumanVerificationError(message) ==
  "captcha" \in message \/ "security_check" \in message

IsTimeoutError(message) == "timeout" \in message

\* what the page shows when it is looked at
PageStates == {"normal", "verification", "region_ban"}

\* the URL holds captcha, verify or /security/, or a verification widget is visible
IsHumanVerificationVisible(page) == page # "normal"

\* the URL holds /security/doubao-region-ban
IsHeadlessAccessBlocked(provider, page) ==
  provider = "doubao" /\ page = "region_ban"

\* provider.config.autoHeadedLoginFallback
AutoHeadedLoginFallback(provider) == provider \in {"yuanbao", "doubao"}

\* the messages runChat throws itself
GuardBlockedMessage == {}
LoginTimedOutMessage == {"login", "timeout"}
NotLoggedInMessage == {"login"}
VerificationTimedOutMessage == {"captcha", "timeout"}
FailedToCaptureMessage == {}

\* for (let attempt = 0; attempt < 3; attempt++)
AttemptLimit == 3

\* isLoggedIn (alone, or polled by recheckLoginHeadless or waitForLogin) has
\* answered li on session i
Answered(c, i, li) == [c EXCEPT !.loginOn = IF li THEN @ \cup {i} ELSE @]

\* launchBrowser succeeded: a new open session, the last of sessions
Launched(sess, headless) == Append(sess, [headless |-> headless, open |-> TRUE])

\* browser.close() on session i
Closed(sess, i) == [sess EXCEPT ![i].open = FALSE]

\* a throw inside runChat's try block: control goes to its catch
Thrown(c, message) ==
  [c EXCEPT !.error = <<message>>, !.attemptError = NoError, !.rvReturn = "none",
            !.rvBrowser = NoBrowser, !.rvActiveHeadless = FALSE, !.rvWaited = 0]

(***************************************************************************)
(* The environment of SpecChat.                                            *)
(***************************************************************************)
MaxRuns == 1

ChatProviders == {"doubao", "chatgpt"}
ChatPrompt == "same prompt"
\* time between two runChat calls, and the time one takes to its outcome
RunGaps == {0, 60 * 60000}
RunDurations == {60000}
\* errors of launchBrowser, of the session store and of the provider adapter
LaunchErrors == {{}}
StoreErrors == {{}}
AdapterErrors == {{}, {"timeout"}, {"captcha"}, {"security_check"}}
\* what captureResponse returns
Captures ==
  { [truncated |-> FALSE, text |-> {}],
    [truncated |-> TRUE, text |-> {}],
    [truncated |-> FALSE, text |-> {"paused_zh"}] }

\* the file an earlier call has left: none, or the one of a headless call that
\* ran into a verification page half an hour before
ChatSeedProvider == "doubao"
ChatSeedMs == StartMs - 30 * 60000

VerificationEarlier ==
  RecordRiskOutcome(
    RecordRiskAttemptStart(EmptyProviders, ChatSeedProvider, "headless", ChatPrompt,
                           ChatSeedMs),
    ChatSeedProvider, "captcha_or_verification", ChatSeedMs)

VerificationAudit ==
  [q \in Providers |->
     IF q = ChatSeedProvider
     THEN AuditOutcome(NoAudit, GetPolicy(q), "captcha_or_verification", ChatSeedMs)
     ELSE NoAudit]

ChatInit ==
  /\ now = StartMs
  /\ opCount = 0
  /\ lastOp = NoOp
  /\ ChatIdle
  /\ RaceIdle
  /\ CaptureIdle
  /\ LockIdle
  /\ SnapIdle
  /\ CrawlIdle
  /\ ClassifierIdle
  /\ \/ file = EmptyProviders /\ audit = [q \in Providers |-> NoAudit]
     \/ file = VerificationEarlier /\ audit = VerificationAudit

RunMode(c) == IF c.headless THEN "headless" ELSE "headed"

\* lines 334-344: a new call; its locals are fresh
StartRun(provider, headless, dt) ==
  /\ pc \in {"idle", "done"}
  /\ runs < MaxRuns
  /\ now' = now + dt
  /\ runs' = runs + 1
  /\ chat' = [IdleChat EXCEPT !.provider = provider, !.headless = headless,
                              !.activeHeadless = headless,
                              !.stage = "risk_guard_precheck"]
  /\ sessions' = <<>>
  /\ pc' = "risk_guard_precheck"
  /\ UNCHANGED <<file, opCount, lastOp, audit, procs, cap, lk, snap, crawl, cls>>

GuardDenied_never(decision) == FALSE

\* line 350: if (!riskDecision.allowed)
GuardDenied(decision) == ~decision.allowed

\* lines 345-368: evaluateRiskGuard; a denial is thrown at once
\* Math.ceil(ms / 1000)
CeilSeconds(ms) == (ms + 999) \div 1000

\* lines 350-354: blockedMessage, by its parts: the provider it names, the
\* seconds of "Retry in ~Ns." and the message of "Reason: ...", each absent
\* when the decision has no (or a zero) waitMs, or no message
BlockedMessage(provider, decision) ==
  LET waitSeconds == IF decision.waitMs # Undefined /\ decision.waitMs[1] # 0
                     THEN <<CeilSeconds(decision.waitMs[1])>> ELSE Undefined
  IN [ destination |-> provider,
       waitHint |-> IF waitSeconds # Undefined /\ waitSeconds[1] # 0
                    THEN waitSeconds ELSE Undefined,
       reasonHint |-> IF decision.message # Undefined
                      THEN <<decision.message>> ELSE Undefined ]

RiskGuardPrecheck ==
  /\ pc = "risk_guard_precheck"
  /\ LET r == EvaluateRiskGuard(LoadRiskState(file), chat.provider, RunMode(chat), ChatPrompt, now)
     IN /\ file' = r.providers
        /\ IF GuardDenied(r.decision)
           THEN /\ chat' = [Counted(chat, "evaluateRiskGuard") EXCEPT
                              !.decision = r.decision,
                              !.blocked = <<BlockedMessage(chat.provider, r.decision)>>,
                              !.error = <<GuardBlockedMessage>>,
                              !.result = "threw"]
                /\ pc' = "done"
           ELSE /\ chat' = [Counted(chat, "evaluateRiskGuard") EXCEPT
                              !.decision = r.decision]
                /\ pc' = "build_bundle"
  /\ UNCHANGED <<now, opCount, lastOp, audit, sessions, runs, procs, cap, lk, snap, crawl, cls>>

\* lines 370-378: buildBundle, createSession, saveBundle; an error leaves runChat
BuildBundle ==
  /\ pc = "build_bundle"
  /\ \/ /\ pc' = "risk_guard_attempt_start"
        /\ chat' = Counted(chat, "createSession")
     \/ \E message \in StoreErrors :
          /\ chat' = [Counted(chat, "createSession") EXCEPT
                        !.error = <<message>>, !.result = "threw"]
          /\ pc' = "done"
  /\ UNCHANGED <<now, file, opCount, lastOp, audit, sessions, runs, procs, cap, lk, snap, crawl, cls>>

\* lines 380-398: recordRiskAttemptStart
RiskGuardAttemptStart ==
  /\ pc = "risk_guard_attempt_start"
  /\ file' = RecordRiskAttemptStart(LoadRiskState(file), chat.provider, RunMode(chat), ChatPrompt, now)
  /\ chat' = [Counted(chat, "recordRiskAttemptStart") EXCEPT
                !.stage = "risk_guard_attempt_start"]
  /\ pc' = "launch_browser"
  /\ UNCHANGED <<now, opCount, lastOp, audit, sessions, runs, procs, cap, lk, snap, crawl, cls>>

\* lines 403-427: the first launch, in a try block of its own whose catch
\* marks the session failed and rethrows
LaunchBrowser ==
  /\ pc = "launch_browser"
  /\ \/ /\ sessions' = Launched(sessions, chat.activeHeadless)
        /\ chat' = [Counted(chat, "launchBrowser") EXCEPT !.stage = "launch_browser",
                                !.browser = Len(sessions) + 1]
        /\ pc' = "check_login"
     \/ \E message \in LaunchErrors :
          /\ chat' = [Counted(chat, "launchBrowser") EXCEPT !.stage = "launch_browser",
                                  !.error = <<message>>, !.result = "threw"]
          /\ pc' = "done"
          /\ UNCHANGED sessions
  /\ UNCHANGED <<now, file, opCount, lastOp, audit, runs, procs, cap, lk, snap, crawl, cls>>

\* lines 436-441: isLoggedIn on the first session
CheckLogin ==
  /\ pc = "check_login"
  /\ \E li \in BOOLEAN :
       /\ chat' = [Answered(chat, chat.browser, li) EXCEPT
                      !.stage = "check_login", !.loggedIn = li]
       /\ pc' = IF ~li /\ AutoHeadedLoginFallback(chat.provider)
                THEN (IF chat.headless THEN "recheck_login_headless" ELSE "login_fallback")
                ELSE "login_gate"
  /\ UNCHANGED <<now, file, opCount, lastOp, audit, sessions, runs, procs, cap, lk, snap, crawl, cls>>

\* lines 444-461: recheckLoginHeadless; on a blocked page the headless session
\* is closed for a headed one
RecheckLoginHeadless ==
  /\ pc = "recheck_login_headless"
  /\ \E li \in BOOLEAN, page \in PageStates :
       IF ~li /\ IsHeadlessAccessBlocked(chat.provider, page)
       THEN /\ sessions' = Closed(sessions, chat.browser)
            /\ chat' = [chat EXCEPT !.loggedIn = li, !.browser = NoBrowser,
                                    !.stage = "relaunch_headed_due_headless_block",
                                    !.activeHeadless = FALSE]
            /\ pc' = "relaunch_headed_due_headless_block"
       ELSE /\ chat' = [Answered(chat, chat.browser, li) EXCEPT !.loggedIn = li]
            /\ pc' = "login_fallback"
            /\ UNCHANGED sessions
  /\ UNCHANGED <<now, file, opCount, lastOp, audit, runs, procs, cap, lk, snap, crawl, cls>>

\* lines 462-470: the headed launch after a block, and isLoggedIn on it
RelaunchHeadedDueHeadlessBlock ==
  /\ pc = "relaunch_headed_due_headless_block"
  /\ \/ \E li \in BOOLEAN :
          /\ sessions' = Launched(sessions, FALSE)
          /\ chat' = [Answered(Counted(chat, "launchBrowser"), Len(sessions) + 1, li) EXCEPT
                         !.browser = Len(sessions) + 1,
                         !.stage = "check_login_after_headed_block_fallback",
                         !.loggedIn = li]
          /\ pc' = "login_fallback"
     \/ \E message \in LaunchErrors :
          /\ chat' = Thrown(Counted(chat, "launchBrowser"), message)
          /\ pc' = "catch"
          /\ UNCHANGED sessions
  /\ UNCHANGED <<now, file, opCount, lastOp, audit, runs, procs, cap, lk, snap, crawl, cls>>

\* lines 473-484 and 524-536: not logged in; a headless session is closed for
\* a headed login, a headed one waits for the login where it is
LoginFallback ==
  /\ pc = "login_fallback"
  /\ IF ~chat.loggedIn /\ chat.activeHeadless
     THEN /\ sessions' = Closed(sessions, chat.browser)
          /\ chat' = [chat EXCEPT !.browser = NoBrowser,
                                  !.stage = "launch_headed_for_login",
                                  !.activeHeadless = FALSE]
          /\ pc' = "launch_headed_for_login"
     ELSE IF ~chat.loggedIn
     THEN /\ \E li \in BOOLEAN :
               chat' = [Answered(chat, chat.browser, li) EXCEPT
                          !.stage = "wait_login_headed_existing",
                          !.loggedIn = li]
          /\ pc' = "login_gate"
          /\ UNCHANGED sessions
     ELSE /\ pc' = "login_gate"
          /\ UNCHANGED <<chat, sessions>>
  /\ UNCHANGED <<now, file, opCount, lastOp, audit, runs, procs, cap, lk, snap, crawl, cls>>

\* lines 485-489: the headed launch at the login URL
LaunchHeadedForLogin ==
  /\ pc = "launch_headed_for_login"
  /\ \/ /\ sessions' = Launched(sessions, FALSE)
        /\ chat' = [Counted(chat, "launchBrowser") EXCEPT !.browser = Len(sessions) + 1]
        /\ pc' = "wait_login_headed"
     \/ \E message \in LaunchErrors :
          /\ chat' = Thrown(Counted(chat, "launchBrowser"), message)
          /\ pc' = "catch"
          /\ UNCHANGED sessions
  /\ UNCHANGED <<now, file, opCount, lastOp, audit, runs, procs, cap, lk, snap, crawl, cls>>

\* lines 497-515: waitForLogin in the headed session; then it is closed for a
\* headless one
WaitLoginHeaded ==
  /\ pc = "wait_login_headed"
  /\ \E li \in BOOLEAN :
       IF ~li
       THEN /\ chat' = Thrown([chat EXCEPT !.stage = "wait_login_headed",
                                           !.loggedIn = li], LoginTimedOutMessage)
            /\ pc' = "catch"
            /\ UNCHANGED sessions
       ELSE /\ sessions' = Closed(sessions, chat.browser)
            /\ chat' = [Answered(chat, chat.browser, li) EXCEPT
                                    !.loggedIn = li, !.browser = NoBrowser,
                                    !.stage = "relaunch_headless_post_login",
                                    !.activeHeadless = TRUE]
            /\ pc' = "relaunch_headless_post_login"
  /\ UNCHANGED <<now, file, opCount, lastOp, audit, runs, procs, cap, lk, snap, crawl, cls>>

\* lines 516-523: the headless launch after the login, and isLoggedIn on it
RelaunchHeadlessPostLogin ==
  /\ pc = "relaunch_headless_post_login"
  /\ \/ \E li \in BOOLEAN :
          /\ sessions' = Launched(sessions, TRUE)
          /\ chat' = [Answered(Counted(chat, "launchBrowser"), Len(sessions) + 1, li) EXCEPT
                         !.browser = Len(sessions) + 1,
                         !.stage = "check_login_after_relaunch",
                         !.loggedIn = li]
          /\ pc' = "login_gate"
     \/ \E message \in LaunchErrors :
          /\ chat' = Thrown(Counted(chat, "launchBrowser"), message)
          /\ pc' = "catch"
          /\ UNCHANGED sessions
  /\ UNCHANGED <<now, file, opCount, lastOp, audit, runs, procs, cap, lk, snap, crawl, cls>>

\* Faulty variant: the call goes on without the login.
LoginGate_open ==
  /\ pc = "login_gate"
  /\ pc' = "attach_files"
  /\ UNCHANGED chat
  /\ UNCHANGED <<now, file, opCount, lastOp, audit, sessions, runs, procs, cap, lk, snap, crawl, cls>>

\* lines 539-543
LoginGate ==
  /\ pc = "login_gate"
  /\ IF ~chat.loggedIn
     THEN chat' = Thrown(chat, NotLoggedInMessage) /\ pc' = "catch"
     ELSE pc' = "attach_files" /\ UNCHANGED chat
  /\ UNCHANGED <<now, file, opCount, lastOp, audit, sessions, runs, procs, cap, lk, snap, crawl, cls>>

\* lines 548-566: the attachments, if any
AttachFiles ==
  /\ pc = "attach_files"
  /\ \/ /\ pc' = "attempt_loop"
        /\ UNCHANGED chat
     \/ /\ pc' = "attempt_loop"
        /\ chat' = [chat EXCEPT !.stage = "attach_files"]
     \/ \E message \in AdapterErrors :
          /\ chat' = Thrown([chat EXCEPT !.stage = "attach_files"], message)
          /\ pc' = "catch"
  /\ UNCHANGED <<now, file, opCount, lastOp, audit, sessions, runs, procs, cap, lk, snap, crawl, cls>>

\* lines 567-574: the loop test, and the call of
\* resolveHumanVerificationIfNeeded that opens every attempt
AttemptLoop ==
  /\ pc = "attempt_loop"
  /\ IF chat.attempt < AttemptLimit
     THEN /\ chat' = [chat EXCEPT !.rvReturn = "submit_prompt",
                                  !.rvBrowser = chat.browser,
                                  !.rvActiveHeadless = chat.activeHeadless]
          /\ pc' = "resolve_verification"
     ELSE /\ pc' = "after_loop"
          /\ UNCHANGED chat
  /\ UNCHANGED <<now, file, opCount, lastOp, audit, sessions, runs, procs, cap, lk, snap, crawl, cls>>

ResolveReturns_noCount(c) ==
  [c EXCEPT !.browser = c.rvBrowser,
            !.activeHeadless = c.rvActiveHeadless,
            !.rvReturn = "none", !.rvBrowser = NoBrowser, !.rvActiveHeadless = FALSE,
            !.rvWaited = 0]

\* resolveHumanVerificationIfNeeded returns: the caller's destructuring
\* assignment, then the statement after the call (continue runs attempt++)
ResolveReturns(c) ==
  [c EXCEPT !.browser = c.rvBrowser,
            !.activeHeadless = c.rvActiveHeadless,
            !.attempt = IF c.rvReturn = "continue" THEN @ + 1 ELSE @,
            !.rvReturn = "none", !.rvBrowser = NoBrowser, !.rvActiveHeadless = FALSE,
            !.rvWaited = 0]

ResolveReturnsTo_fromStart(c) ==
  IF c.rvReturn = "continue" THEN "risk_guard_attempt_start" ELSE "submit_prompt"

ResolveReturnsTo(c) ==
  IF c.rvReturn = "continue" THEN "attempt_loop" ELSE "submit_prompt"

\* lines 764-773: no verification in sight, or the headless session is closed
ResolveVerification ==
  /\ pc = "resolve_verification"
  /\ \E page \in PageStates :
       IF ~IsHumanVerificationVisible(page)
       THEN /\ chat' = ResolveReturns(chat)
            /\ pc' = ResolveReturnsTo(chat)
            /\ UNCHANGED sessions
       ELSE IF chat.rvActiveHeadless
       THEN /\ sessions' = Closed(sessions, chat.rvBrowser)
            /\ pc' = "resolve_relaunch"
            /\ UNCHANGED chat
       ELSE /\ pc' = "resolve_wait"
            /\ UNCHANGED <<chat, sessions>>
  /\ UNCHANGED <<now, file, opCount, lastOp, audit, runs, procs, cap, lk, snap, crawl, cls>>

\* lines 774-780: the headed launch, kept in the local browser
ResolveRelaunch ==
  /\ pc = "resolve_relaunch"
  /\ \/ /\ sessions' = Launched(sessions, FALSE)
        /\ chat' = [Counted(chat, "launchBrowser") EXCEPT !.rvBrowser = Len(sessions) + 1,
                                !.rvActiveHeadless = FALSE]
        /\ pc' = "resolve_wait"
     \/ \E message \in LaunchErrors :
          /\ chat' = Thrown(Counted(chat, "launchBrowser"), message)
          /\ pc' = "catch"
          /\ UNCHANGED sessions
  /\ UNCHANGED <<now, file, opCount, lastOp, audit, runs, procs, cap, lk, snap, crawl, cls>>

HUMAN_VERIFICATION_WAIT_TIMEOUT_MS == 5 * 60 * 1000

HUMAN_VERIFICATION_POLL_INTERVAL_MS == 2000

\* when the person at the browser clears the challenge, from the start of the wait
ClearsAfter == {0, 3000, HUMAN_VERIFICATION_WAIT_TIMEOUT_MS - 1,
                HUMAN_VERIFICATION_WAIT_TIMEOUT_MS}

\* the first poll at or after a time: polls are an interval apart
PollAt(ms) ==
  ((ms + HUMAN_VERIFICATION_POLL_INTERVAL_MS - 1) \div HUMAN_VERIFICATION_POLL_INTERVAL_MS)
    * HUMAN_VERIFICATION_POLL_INTERVAL_MS

WaitForHumanVerificationClear_pastDeadline(clearsAfter, timeoutMs) ==
  IF PollAt(clearsAfter) <= timeoutMs
  THEN [cleared |-> TRUE, waited |-> PollAt(clearsAfter)]
  ELSE [cleared |-> FALSE, waited |-> PollAt(timeoutMs)]

\* waitForHumanVerificationClear: poll until the challenge is gone or the
\* deadline is reached
WaitForHumanVerificationClear(clearsAfter, timeoutMs) ==
  IF PollAt(clearsAfter) < timeoutMs
  THEN [cleared |-> TRUE, waited |-> PollAt(clearsAfter)]
  ELSE [cleared |-> FALSE, waited |-> PollAt(timeoutMs)]

\* lines 789-798: waitForHumanVerificationClear
ResolveWait ==
  /\ pc = "resolve_wait"
  /\ \E clearsAfter \in ClearsAfter :
       LET wait == WaitForHumanVerificationClear(clearsAfter,
                                                 HUMAN_VERIFICATION_WAIT_TIMEOUT_MS)
       IN IF ~wait.cleared
          THEN /\ chat' = [Thrown(chat, VerificationTimedOutMessage) EXCEPT
                             !.rvWaited = wait.waited]
               /\ pc' = "catch"
          ELSE /\ chat' = [chat EXCEPT !.rvWaited = wait.waited]
               /\ pc' = "resolve_login"
  /\ UNCHANGED <<now, file, opCount, lastOp, audit, sessions, runs, procs, cap, lk, snap, crawl, cls>>

\* lines 800-815: isLoggedIn, then waitForLogin if it says no
ResolveLogin ==
  /\ pc = "resolve_login"
  /\ \E li \in BOOLEAN, waited \in BOOLEAN :
       IF ~(li \/ waited)
       THEN chat' = Thrown(chat, NotLoggedInMessage) /\ pc' = "catch"
       ELSE /\ chat' = Answered(ResolveReturns(chat), chat.rvBrowser, TRUE)
            /\ pc' = ResolveReturnsTo(chat)
  /\ UNCHANGED <<now, file, opCount, lastOp, audit, sessions, runs, procs, cap, lk, snap, crawl, cls>>

\* lines 581-583
SubmitPrompt ==
  /\ pc = "submit_prompt"
  /\ \/ /\ chat' = [Counted(chat, "submitPrompt") EXCEPT !.stage = "submit_prompt"]
        /\ pc' = "capture_response"
     \/ \E message \in AdapterErrors :
          /\ chat' = [Counted(chat, "submitPrompt") EXCEPT !.stage = "submit_prompt",
                                  !.attemptError = <<message>>]
          /\ pc' = "attempt_failed"
  /\ UNCHANGED <<now, file, opCount, lastOp, audit, sessions, runs, procs, cap, lk, snap, crawl, cls>>

\* const timeoutMs = options.timeoutMs ?? config.defaultTimeoutMs
TimeoutMs == 5 * 60 * 1000

Min2(a, b) == IF a <= b THEN a ELSE b

\* lines 576-579: captureTimeoutMs
CaptureTimeoutMs(c) ==
  IF c.attempt = 0 /\ c.activeHeadless /\ c.provider = "doubao"
  THEN Min2(TimeoutMs, 25000)
  ELSE TimeoutMs

\* lines 586-591: captureResponse; a response ends the loop.  An adapter
\* measures its timeout from its own start: a truncated response and a
\* timed-out capture have polled for the whole captureTimeoutMs.
CaptureResponse ==
  /\ pc = "capture_response"
  /\ \/ \E response \in Captures :
          /\ chat' = [Counted(chat, "captureResponse") EXCEPT
                       !.stage = "capture_response",
                       !.captured = <<response>>,
                       !.polled = IF response.truncated THEN @ + CaptureTimeoutMs(chat)
                                  ELSE @]
          /\ pc' = "after_loop"
     \/ \E message \in AdapterErrors :
          /\ chat' = [Counted(chat, "captureResponse") EXCEPT
                       !.stage = "capture_response",
                       !.attemptError = <<message>>,
                       !.polled = IF IsTimeoutError(message) THEN @ + CaptureTimeoutMs(chat)
                                  ELSE @]
          /\ pc' = "attempt_failed"
  /\ UNCHANGED <<now, file, opCount, lastOp, audit, sessions, runs, procs, cap, lk, snap, crawl, cls>>

\* lines 592-626 and 657: the catch inside the loop
AttemptFailed ==
  /\ pc = "attempt_failed"
  /\ \E page \in PageStates :
       LET message == chat.attemptError[1]
           needsHumanVerification ==
             IsHumanVerificationError(message) \/ IsHumanVerificationVisible(page)
           canRetryHeaded ==
             /\ chat.activeHeadless
             /\ chat.provider = "doubao"
             /\ (IsHeadlessAccessBlocked(chat.provider, page) \/ IsTimeoutError(message))
       IN IF needsHumanVerification
          THEN /\ chat' = [chat EXCEPT !.attemptError = NoError,
                                       !.rvReturn = "continue",
                                       !.rvBrowser = chat.browser,
                                       !.rvActiveHeadless = chat.activeHeadless]
               /\ pc' = "resolve_verification"
               /\ UNCHANGED sessions
          ELSE IF chat.attempt = 0 /\ canRetryHeaded
          THEN /\ sessions' = Closed(sessions, chat.browser)
               /\ chat' = [chat EXCEPT !.attemptError = NoError,
                                       !.browser = NoBrowser,
                                       !.stage = "relaunch_headed_retry_after_block",
                                       !.activeHeadless = FALSE]
               /\ pc' = "relaunch_headed_retry_after_block"
          ELSE /\ chat' = Thrown(chat, message)
               /\ pc' = "catch"
               /\ UNCHANGED sessions
  /\ UNCHANGED <<now, file, opCount, lastOp, audit, runs, procs, cap, lk, snap, crawl, cls>>

\* lines 627-654: the headed launch of the retry, isLoggedIn and waitForLogin
RelaunchHeadedRetryAfterBlock ==
  /\ pc = "relaunch_headed_retry_after_block"
  /\ \/ \E li \in BOOLEAN, waited \in BOOLEAN :
          /\ sessions' = Launched(sessions, FALSE)
          /\ IF ~(li \/ waited)
             THEN /\ chat' = Thrown([Counted(chat, "launchBrowser") EXCEPT
                                       !.browser = Len(sessions) + 1,
                                       !.stage = "wait_login_after_retry_relaunch"],
                                    NotLoggedInMessage)
                  /\ pc' = "catch"
             ELSE /\ chat' = [Answered(Counted(chat, "launchBrowser"),
                                       Len(sessions) + 1, TRUE) EXCEPT
                                !.browser = Len(sessions) + 1,
                                !.stage = IF li THEN "check_login_after_retry_relaunch"
                                          ELSE "wait_login_after_retry_relaunch",
                                !.attempt = @ + 1]
                  /\ pc' = "attempt_loop"
     \/ \E message \in LaunchErrors :
          /\ chat' = Thrown(Counted(chat, "launchBrowser"), message)
          /\ pc' = "catch"
          /\ UNCHANGED sessions
  /\ UNCHANGED <<now, file, opCount, lastOp, audit, runs, procs, cap, lk, snap, crawl, cls>>

\* lines 661-675: no response after the loop is an error; a response is
\* classified and its outcome recorded
AfterLoop ==
  /\ pc = "after_loop"
  /\ IF chat.captured = NoCapture
     THEN /\ chat' = Thrown(chat, FailedToCaptureMessage)
          /\ pc' = "catch"
          /\ UNCHANGED <<now, file>>
     ELSE \E dt \in RunDurations :
            LET response == chat.captured[1]
                riskOutcome == IF response.truncated THEN "timeout"
                               ELSE DetectRiskOutcomeFromResponse(response.text)
            IN /\ now' = now + dt
               /\ file' = RecordRiskOutcome(LoadRiskState(file), chat.provider, riskOutcome, now + dt)
               /\ chat' = [chat EXCEPT !.outcomes = Append(@, riskOutcome)]
               /\ pc' = "save_response"
  /\ UNCHANGED <<opCount, lastOp, audit, sessions, runs, procs, cap, lk, snap, crawl, cls>>

\* lines 678-691: saveResponse, updateSession, return
SaveResponse ==
  /\ pc = "save_response"
  /\ \/ /\ chat' = [chat EXCEPT !.stage = "save_response", !.result = "returned"]
        /\ pc' = "finally"
     \/ \E message \in StoreErrors :
          /\ chat' = Thrown([chat EXCEPT !.stage = "save_response"], message)
          /\ pc' = "catch"
  /\ UNCHANGED <<now, file, opCount, lastOp, audit, sessions, runs, procs, cap, lk, snap, crawl, cls>>

\* lines 692-719: the catch of runChat's try block
Catch ==
  /\ pc = "catch"
  /\ \E dt \in RunDurations :
       LET kind == DetectRiskOutcomeFromError(chat.error[1])
       IN /\ now' = now + dt
          /\ file' = RecordRiskOutcome(LoadRiskState(file), chat.provider, kind, now + dt)
          /\ chat' = [chat EXCEPT !.outcomes = Append(@, kind), !.result = "threw"]
          /\ pc' = "finally"
  /\ UNCHANGED <<opCount, lastOp, audit, sessions, runs, procs, cap, lk, snap, crawl, cls>>

\* lines 720-724: the finally of runChat's try block
Finally ==
  /\ pc = "finally"
  /\ IF chat.browser # NoBrowser
     THEN /\ sessions' = Closed(sessions, chat.browser)
     ELSE UNCHANGED sessions
  /\ pc' = "done"
  /\ UNCHANGED <<now, file, opCount, lastOp, audit, chat, runs, procs, cap, lk, snap, crawl, cls>>

NextChat ==
  \/ \E provider \in ChatProviders, headless \in BOOLEAN, dt \in RunGaps :
       StartRun(provider, headless, dt)
  \/ RiskGuardPrecheck
  \/ BuildBundle
  \/ RiskGuardAttemptStart
  \/ LaunchBrowser
  \/ CheckLogin
  \/ RecheckLoginHeadless
  \/ RelaunchHeadedDueHeadlessBlock
  \/ LoginFallback
  \/ LaunchHeadedForLogin
  \/ WaitLoginHeaded
  \/ RelaunchHeadlessPostLogin
  \/ LoginGate
  \/ AttachFiles
  \/ AttemptLoop
  \/ ResolveVerification
  \/ ResolveRelaunch
  \/ ResolveWait
  \/ ResolveLogin
  \/ SubmitPrompt
  \/ CaptureResponse
  \/ AttemptFailed
  \/ RelaunchHeadedRetryAfterBlock
  \/ AfterLoop
  \/ SaveResponse
  \/ Catch
  \/ Finally

SpecChat == ChatInit /\ [][NextChat]_vars

(***************************************************************************)
(* Two processes on the same risk-state file.  Each guard operation reads  *)
(* the clock and the whole file (loadRiskState), computes on its copy and  *)
(* writes the whole file back (saveRiskState); nothing holds the file in   *)
(* between, so the steps of two processes interleave.                      *)
(***************************************************************************)
RaceProviders == {"yuanbao"}
RaceKinds == {"http_429", "success", "timeout"}
RaceModes == {"headless"}
RacePrompts == {"same prompt"}
RaceSteps == {0, 60000}

RaceOps ==
  [op : {"evaluate", "recordAttemptStart"}, provider : RaceProviders, mode : RaceModes,
   prompt : RacePrompts, kind : {"none"}, decision : {Allowed}]
  \cup
  [op : {"recordOutcome"}, provider : RaceProviders, mode : {"none"},
   prompt : {"none"}, kind : RaceKinds, decision : {Allowed}]

\* the file a guard operation saves, from the file it loaded
Saved(op, providers, nowMs) ==
  IF op.op = "evaluate"
  THEN EvaluateRiskGuard(providers, op.provider, op.mode, op.prompt, nowMs).providers
  ELSE IF op.op = "recordAttemptStart"
  THEN RecordRiskAttemptStart(providers, op.provider, op.mode, op.prompt, nowMs)
  ELSE RecordRiskOutcome(providers, op.provider, op.kind, nowMs)

\* Date.now() and loadRiskState
Load(p, op, dt) ==
  /\ procs[p].at = "idle"
  /\ now' = now + dt
  /\ procs' = [procs EXCEPT ![p] = [at |-> "loaded", op |-> op, nowMs |-> now + dt,
                                    state |-> LoadRiskState(file)]]
  /\ UNCHANGED <<file, opCount, lastOp, audit, chatVars, cap, lk, snap, crawl, cls>>

\* saveRiskState
Save(p) ==
  /\ procs[p].at = "loaded"
  /\ file' = Saved(procs[p].op, procs[p].state, procs[p].nowMs)
  /\ procs' = [procs EXCEPT ![p].at = "saved"]
  /\ UNCHANGED <<now, opCount, lastOp, audit, chatVars, cap, lk, snap, crawl, cls>>

NextRace ==
  \/ \E p \in Procs, op \in RaceOps, dt \in RaceSteps : Load(p, op, dt)
  \/ \E p \in Procs : Save(p)

SpecRace == SeededInit /\ [][NextRace]_vars

(***************************************************************************)
(* captureResponse of the provider adapters: poll the page until the       *)
(* answer is stable or the timeout is over.  One call is run poll by poll; *)
(* what the page shows at a poll (the turn snapshot, and whether a stop    *)
(* button is visible) is the environment's choice.  Time is counted in     *)
(* poll intervals: the call's timeout is over after MaxPolls of them.      *)
(***************************************************************************)
MaxPolls == 5

Destinations == {"yuanbao", "deepseek", "doubao", "chatgpt"}

\* const STABLE_THRESHOLD
STABLE_THRESHOLD(dest) == IF dest \in {"yuanbao", "doubao"} THEN 2 ELSE 3

\* the texts of the model, character by character
Po == <<"p", "o">>
Pong == <<"p", "o", "n", "g">>
\* the status phrase zheng-zai-sou-suo ("searching"), its four characters by name
Searching == <<"zheng", "zai", "sou", "suo">>
EmptyAnswerLine == <<"(", "e", "m", "p", "t", "y", ")">>

IsInterimAnswer_onlyEmpty(text) == text = EmptyText

\* isInterimAnswer: nothing, or one of the status phrases
IsInterimAnswer(text) == text = EmptyText \/ text \in {Searching}

\* the signature joins the fields of the snapshot; ChatGPT compares the text
TurnSignature(dest, snapshot) ==
  IF dest = "chatgpt" THEN <<snapshot.answerText>>
  ELSE <<snapshot.answerText, snapshot.markers>>

\* text.startsWith(prefix), text.slice(n)
StartsWith(text, prefix) ==
  Len(prefix) <= Len(text) /\ SubSeq(text, 1, Len(prefix)) = prefix

Slice(text, n) == SubSeq(text, n + 1, Len(text))

\* formatStructuredResponse: the answer section of the structured text
FormatStructuredResponse(snapshot) ==
  [format |-> "structured",
   answer |-> IF snapshot.answerText = EmptyText THEN EmptyAnswerLine
              ELSE snapshot.answerText]

\* a text returned as it is
RawText(text) == [format |-> "raw", answer |-> text]

TimedOutWaitingMessage == {"timeout"}
RegionBanMessage == {}

\* what the page can show, and what it shows before the prompt is answered
PollSnapshots ==
  { EmptySnapshot,
    [answerText |-> EmptyText, markers |-> {"1"}],
    [answerText |-> Po, markers |-> {}],
    [answerText |-> Pong, markers |-> {}],
    [answerText |-> Pong, markers |-> {"1"}],
    [answerText |-> Searching, markers |-> {}] }

Baselines == {EmptySnapshot, [answerText |-> Pong, markers |-> {}]}

\* the onChunk part of a poll: the streamed text and the chunk emitted
Streamed(lastStreamedAnswer, answerText) ==
  IF Len(answerText) > Len(lastStreamedAnswer) /\ StartsWith(answerText, lastStreamedAnswer)
  THEN [text |-> answerText, chunk |-> Slice(answerText, Len(lastStreamedAnswer))]
  ELSE IF Len(lastStreamedAnswer) = 0 /\ Len(answerText) > 0
  THEN [text |-> answerText, chunk |-> answerText]
  ELSE [text |-> lastStreamedAnswer, chunk |-> EmptyText]

\* the poll saw the turn that answers the prompt
SeesNewTurn(c, current) ==
  /\ TurnSignature(c.dest, current) # TurnSignature(c.dest, c.baseline)
  /\ c.dest = "doubao" => Len(current.answerText) > 0

Completes_early(dest, stableCount, answerText) ==
  stableCount >= STABLE_THRESHOLD(dest) - 1

\* the break of the polling loop
Completes(dest, stableCount, answerText) ==
  /\ stableCount >= STABLE_THRESHOLD(dest)
  /\ dest \in {"yuanbao", "chatgpt"} => Len(answerText) > 0

\* yuanbao.ts 1017-1044: one turn of the loop
PollYuanbao(c, current, isStreaming) ==
  LET currentSignature == TurnSignature(c.dest, current)
      sawNewTurn == c.sawNewTurn \/ SeesNewTurn(c, current)
      streamed == Streamed(c.lastStreamedAnswer, current.answerText)
      stableCount == IF currentSignature = c.lastSignature THEN c.stableCount + 1 ELSE 0
  IN IF ~sawNewTurn THEN [c EXCEPT !.emitted = EmptyText]
     ELSE [c EXCEPT !.sawNewTurn = TRUE,
                    !.lastStreamedAnswer = streamed.text,
                    !.emitted = streamed.chunk,
                    !.stableCount = stableCount,
                    !.lastSignature = currentSignature,
                    !.lastSnapshot = current,
                    !.completed = Completes(c.dest, stableCount, current.answerText)]

\* deepseek.ts 409-435: one turn of the loop
PollDeepseek(c, current, isStreaming) ==
  LET currentSignature == TurnSignature(c.dest, current)
      sawNewTurn == c.sawNewTurn \/ SeesNewTurn(c, current)
      streamed == Streamed(c.lastStreamedAnswer, current.answerText)
      s == [c EXCEPT !.sawNewTurn = TRUE,
                     !.lastStreamedAnswer = streamed.text,
                     !.emitted = streamed.chunk]
  IN IF ~sawNewTurn THEN [c EXCEPT !.emitted = EmptyText]
     ELSE IF currentSignature = c.lastSignature
     THEN IF ~isStreaming
          THEN [s EXCEPT !.stableCount = @ + 1,
                         !.completed = Completes(c.dest, c.stableCount + 1,
                                                 current.answerText)]
          ELSE s
     ELSE [s EXCEPT !.lastSignature = currentSignature,
                    !.lastSnapshot = current,
                    !.stableCount = 0]

\* part_011 841-872: one turn of the loop
PollDoubao(c, current, isStreaming) ==
  LET currentSignature == TurnSignature(c.dest, current)
      sawNewTurn == c.sawNewTurn \/ SeesNewTurn(c, current)
      streamed == Streamed(c.lastStreamedAnswer, current.answerText)
      s == [c EXCEPT !.sawNewTurn = TRUE,
                     !.lastStreamedAnswer = streamed.text,
                     !.emitted = streamed.chunk]
  IN IF ~sawNewTurn THEN [c EXCEPT !.emitted = EmptyText]
     ELSE IF currentSignature = c.lastSignature
     THEN IF ~isStreaming
          THEN IF IsInterimAnswer(current.answerText)
               THEN [s EXCEPT !.stableCount = 0]
               ELSE [s EXCEPT !.stableCount = @ + 1,
                              !.completed = Completes(c.dest, c.stableCount + 1,
                                                      current.answerText)]
          ELSE s
     ELSE [s EXCEPT !.lastSignature = currentSignature,
                    !.lastSnapshot = current,
                    !.stableCount = 0]

\* chatgpt.ts 119-135: one turn of the loop; lastSnapshot holds lastText
PollChatgpt(c, current, isStreaming) ==
  LET currentText == current.answerText
      lastText == c.lastSnapshot.answerText
  IN IF currentText = lastText /\ ~isStreaming
     THEN [c EXCEPT !.stableCount = @ + 1,
                    !.emitted = EmptyText,
                    !.completed = Completes(c.dest, c.stableCount + 1, currentText)]
     ELSE [c EXCEPT !.emitted = IF Len(currentText) > Len(lastText)
                                 THEN Slice(currentText, Len(lastText)) ELSE EmptyText,
                    !.lastSnapshot = [answerText |-> currentText, markers |-> {}],
                    !.lastSignature = <<currentText>>,
                    !.stableCount = 0]

PollStep(c, current, isStreaming) ==
  IF c.dest = "yuanbao" THEN PollYuanbao(c, current, isStreaming)
  ELSE IF c.dest = "deepseek" THEN PollDeepseek(c, current, isStreaming)
  ELSE IF c.dest = "doubao" THEN PollDoubao(c, current, isStreaming)
  ELSE PollChatgpt(c, current, isStreaming)

\* elapsed >= timeoutMs
ElapsedOver(c) == c.polls >= MaxPolls

\* the history kept of a poll, next to what the code keeps
Observed(c, current, isStreaming) ==
  LET before == IF c.prev = NoSnapshot THEN c.baseline ELSE c.prev[1].snapshot
      same == TurnSignature(c.dest, current) = TurnSignature(c.dest, before)
  IN [prev |-> <<[snapshot |-> current, streaming |-> isStreaming]>>,
      sameRun |-> IF same THEN c.sameRun + 1 ELSE 0,
      cleanRun |-> IF same /\ ~isStreaming THEN c.cleanRun + 1 ELSE 0,
      everDiffered |-> c.everDiffered
                       \/ TurnSignature(c.dest, current)
                            # TurnSignature(c.dest, c.baseline)]

\* the call: startTime and the baseline snapshot (ChatGPT takes none and
\* first waits for an assistant turn)
StartCapture(dest, baseline) ==
  /\ cap.phase = "idle"
  /\ dest = "chatgpt" => baseline = EmptySnapshot
  /\ cap' = [IdleCapture EXCEPT
               !.dest = dest,
               !.phase = IF dest = "chatgpt" THEN "waiting" ELSE "polling",
               !.baseline = baseline,
               !.lastSnapshot = baseline,
               !.lastSignature = TurnSignature(dest, baseline)]
  /\ UNCHANGED <<guardVars, chatVars, procs, lk, snap, crawl, cls>>

\* chatgpt.ts 96-109: waitForTurn
WaitForTurn(appeared) ==
  /\ cap.phase = "waiting"
  /\ cap' = IF ElapsedOver(cap)
            THEN [cap EXCEPT !.phase = "threw", !.error = <<TimedOutWaitingMessage>>]
            ELSE IF appeared
            THEN [cap EXCEPT !.phase = "polling", !.sawNewTurn = TRUE,
                             !.everDiffered = TRUE]
            ELSE [cap EXCEPT !.polls = @ + 1]
  /\ UNCHANGED <<guardVars, chatVars, procs, lk, snap, crawl, cls>>

\* one turn of the polling loop and the wait that ends it
Poll(current, isStreaming) ==
  /\ cap.phase = "polling"
  /\ ~cap.completed
  /\ ~ElapsedOver(cap)
  /\ LET c == PollStep(cap, current, isStreaming)
         h == Observed(cap, current, isStreaming)
     IN cap' = [c EXCEPT !.polls = @ + 1,
                         !.prev = h.prev,
                         !.sameRun = h.sameRun,
                         !.cleanRun = h.cleanRun,
                         !.everDiffered = h.everDiffered]
  /\ UNCHANGED <<guardVars, chatVars, procs, lk, snap, crawl, cls>>

\* part_011 834-836: the region-ban page shows during the polling
RegionBan ==
  /\ cap.phase = "polling"
  /\ cap.dest = "doubao"
  /\ ~cap.completed
  /\ ~ElapsedOver(cap)
  /\ cap' = [cap EXCEPT !.phase = "threw", !.error = <<RegionBanMessage>>]
  /\ UNCHANGED <<guardVars, chatVars, procs, lk, snap, crawl, cls>>

\* after the loop: the response returned, or the error thrown
Finished(c) ==
  LET timedOutShort == ElapsedOver(c) /\ c.stableCount < STABLE_THRESHOLD(c.dest)
  IN IF c.dest = "yuanbao"
     THEN [c EXCEPT
             !.phase = "returned",
             !.response = <<[text |-> IF c.sawNewTurn
                                      THEN FormatStructuredResponse(c.lastSnapshot)
                                      ELSE RawText(EmptyText),
                             truncated |-> timedOutShort /\ c.sawNewTurn]>>]
     ELSE IF c.dest = "chatgpt"
     THEN [c EXCEPT
             !.phase = "returned",
             !.response = <<[text |-> RawText(c.lastSnapshot.answerText),
                             truncated |-> timedOutShort]>>]
     ELSE IF ~c.sawNewTurn /\ Len(c.lastStreamedAnswer) = 0
     THEN [c EXCEPT !.phase = "threw", !.error = <<TimedOutWaitingMessage>>]
     ELSE [c EXCEPT
             !.phase = "returned",
             !.response = <<[text |-> IF c.sawNewTurn
                                      THEN FormatStructuredResponse(c.lastSnapshot)
                                      ELSE FormatStructuredResponse(EmptySnapshot),
                             truncated |-> timedOutShort]>>]

FinishCapture ==
  /\ cap.phase = "polling"
  /\ cap.completed \/ ElapsedOver(cap)
  /\ cap' = Finished(cap)
  /\ UNCHANGED <<guardVars, chatVars, procs, lk, snap, crawl, cls>>

NextCapture ==
  \/ \E dest \in Destinations, baseline \in Baselines : StartCapture(dest, baseline)
  \/ \E appeared \in BOOLEAN : WaitForTurn(appeared)
  \/ \E current \in PollSnapshots, isStreaming \in BOOLEAN : Poll(current, isStreaming)
  \/ RegionBan
  \/ FinishCapture

SpecCapture == GuardInit /\ [][NextCapture]_vars

(***************************************************************************)
(* The profile lock (browser/lock.ts): two live processes call             *)
(* acquireProfileLock on one profile directory and release the lock they   *)
(* got.  Every await of the code is a step of its own, so that the reads,  *)
(* removals and exclusive creates of the processes interleave freely.  A   *)
(* turn of the loop stands for pollMs of the timeout.                      *)
(***************************************************************************)
MaxLockTurns == 3
MaxLockCalls == 2

\* readFile and JSON.parse succeed: the file is there and its record written
Readable(lockFile) == lockFile # NoLockFile /\ lockFile[1].written

\* isProcessAlive
IsProcessAlive(pid) == pid \in LockProcs

\* the process moves on in its code
LockAt(l, p, at) == [l EXCEPT !.proc[p].at = at]

\* await new Promise((r) => setTimeout(r, pollMs)), and the loop starts over
LockPolled(l, p) == [l EXCEPT !.proc[p].at = "read", !.proc[p].turns = @ + 1]

\* lines 38-44: a call, with its own random lockId
AcquireProfileLock(p) ==
  /\ lk.proc[p].at = "idle"
  /\ lk.proc[p].acquired < MaxLockCalls
  /\ lk' = [lk EXCEPT !.proc[p] = [at |-> "read",
                                   lockId |-> <<p, lk.proc[p].acquired + 1>>,
                                   turns |-> 0,
                                   acquired |-> lk.proc[p].acquired + 1,
                                   exit |-> "none"]]
  /\ UNCHANGED <<guardVars, chatVars, procs, cap, snap, crawl, cls>>

\* lines 46-62 and 106-109: the deadline, readFile, isProcessAlive
ReadLock(p) ==
  /\ lk.proc[p].at = "read"
  /\ lk' = IF lk.proc[p].turns >= MaxLockTurns
           THEN [lk EXCEPT !.proc[p].at = "idle", !.proc[p].lockId = NoLockId]
           ELSE IF ~Readable(lk.file) THEN LockAt(lk, p, "create")
           ELSE IF ~IsProcessAlive(lk.file[1].pid) THEN LockAt(lk, p, "remove_stale")
           ELSE LockPolled(lk, p)
  /\ UNCHANGED <<guardVars, chatVars, procs, cap, snap, crawl, cls>>

\* line 54: rm(lockPath, { force: true }) of the lock read as stale
RemoveStale(p) ==
  /\ lk.proc[p].at = "remove_stale"
  /\ lk' = [LockAt(lk, p, "create") EXCEPT !.file = NoLockFile]
  /\ UNCHANGED <<guardVars, chatVars, procs, cap, snap, crawl, cls>>

\* lines 71-77: writeFile with flag wx, the exclusive create of the file
CreateLock(p) ==
  /\ lk.proc[p].at = "create"
  /\ lk' = IF lk.file # NoLockFile
           THEN LockPolled(lk, p)
           ELSE [LockAt(lk, p, "write") EXCEPT
                   !.file = <<[pid |-> p, lockId |-> lk.proc[p].lockId,
                               written |-> FALSE]>>]
  /\ UNCHANGED <<guardVars, chatVars, procs, cap, snap, crawl, cls>>

\* line 72: writeFile writes the record into the file it has created (into
\* nothing when the file was removed meanwhile)
WriteLock(p) ==
  /\ lk.proc[p].at = "write"
  /\ lk' = IF lk.file # NoLockFile /\ lk.file[1].lockId = lk.proc[p].lockId
           THEN [LockAt(lk, p, "verify") EXCEPT !.file[1].written = TRUE]
           ELSE LockAt(lk, p, "verify")
  /\ UNCHANGED <<guardVars, chatVars, procs, cap, snap, crawl, cls>>

\* lines 79-103: read the file again; the lock is held when it has our lockId
VerifyLock(p) ==
  /\ lk.proc[p].at = "verify"
  /\ lk' = IF Readable(lk.file) /\ lk.file[1].lockId = lk.proc[p].lockId
           THEN LockAt(lk, p, "holding")
           ELSE LockPolled(lk, p)
  /\ UNCHANGED <<guardVars, chatVars, procs, cap, snap, crawl, cls>>

\* manager.ts 35-54: launchPersistentContext, newPage and goto, in a try
\* block whose catch releases the lock and rethrows
LaunchContext(p, ok) ==
  /\ lk.proc[p].at = "holding"
  /\ lk' = IF ok THEN LockAt(lk, p, "session")
           ELSE [LockAt(lk, p, "release_read") EXCEPT !.proc[p].exit = "launch_threw"]
  /\ UNCHANGED <<guardVars, chatVars, procs, cap, snap, crawl, cls>>

\* Faulty variant: close() releases the lock after context.close() only.
CloseSession_noFinally(p, ok) ==
  /\ lk.proc[p].at = "session"
  /\ lk' = IF ok
           THEN [LockAt(lk, p, "release_read") EXCEPT !.proc[p].exit = "close_returned"]
           ELSE [LockAt(lk, p, "released") EXCEPT !.proc[p].exit = "close_threw"]
  /\ UNCHANGED <<guardVars, chatVars, procs, cap, snap, crawl, cls>>

\* manager.ts 56-62: close(): context.close() in a try block whose finally
\* releases the lock
CloseSession(p, ok) ==
  /\ lk.proc[p].at = "session"
  /\ lk' = [LockAt(lk, p, "release_read") EXCEPT
              !.proc[p].exit = IF ok THEN "close_returned" ELSE "close_threw"]
  /\ UNCHANGED <<guardVars, chatVars, procs, cap, snap, crawl, cls>>

\* release is called once more on the lock it has released
ReleaseAgain(p) ==
  /\ lk.proc[p].at = "released"
  /\ lk.proc[p].exit # "again"
  /\ lk' = [LockAt(lk, p, "release_read") EXCEPT !.proc[p].exit = "again"]
  /\ UNCHANGED <<guardVars, chatVars, procs, cap, snap, crawl, cls>>

\* lines 87-91: release reads the file and compares the lockId
ReleaseRead(p) ==
  /\ lk.proc[p].at = "release_read"
  /\ lk' = IF Readable(lk.file) /\ lk.file[1].lockId = lk.proc[p].lockId
           THEN LockAt(lk, p, "release_rm")
           ELSE LockAt(lk, p, "released")
  /\ UNCHANGED <<guardVars, chatVars, procs, cap, snap, crawl, cls>>

\* line 92: release removes the file
ReleaseRemove(p) ==
  /\ lk.proc[p].at = "release_rm"
  /\ lk' = [LockAt(lk, p, "released") EXCEPT !.file = NoLockFile]
  /\ UNCHANGED <<guardVars, chatVars, procs, cap, snap, crawl, cls>>

\* the lock object is let go
DropLock(p) ==
  /\ lk.proc[p].at = "released"
  /\ lk' = [lk EXCEPT !.proc[p].at = "idle", !.proc[p].lockId = NoLockId,
                      !.proc[p].exit = "none"]
  /\ UNCHANGED <<guardVars, chatVars, procs, cap, snap, crawl, cls>>

\* no lock file, or the stale one of a dead process
LockInit ==
  /\ now = StartMs
  /\ file = EmptyProviders
  /\ opCount = 0
  /\ lastOp = NoOp
  /\ audit = [q \in Providers |-> NoAudit]
  /\ ChatIdle
  /\ RaceIdle
  /\ CaptureIdle
  /\ SnapIdle
  /\ CrawlIdle
  /\ ClassifierIdle
  /\ lk \in {IdleLock, [IdleLock EXCEPT !.file = StaleLockFile]}

NextLock ==
  \E p \in LockProcs :
    \/ AcquireProfileLock(p)
    \/ ReadLock(p)
    \/ RemoveStale(p)
    \/ CreateLock(p)
    \/ WriteLock(p)
    \/ VerifyLock(p)
    \/ \E ok \in BOOLEAN : LaunchContext(p, ok)
    \/ \E ok \in BOOLEAN : CloseSession(p, ok)
    \/ ReleaseAgain(p)
    \/ ReleaseRead(p)
    \/ ReleaseRemove(p)
    \/ DropLock(p)

SpecLock == LockInit /\ [][NextLock]_vars

(***************************************************************************)
(* extractCurrentTurnSnapshotWithRetry (part_011 153-185).  An error is    *)
(* the message it carries.                                                 *)
(***************************************************************************)
MaxSnapCalls == 2

\* maxAttempts = 6
MaxAttempts == 6

ExtractionErrors ==
  { "Execution context was destroyed", "Cannot find context with specified id",
    "Frame was detached", "Browsing context has been discarded", "Target closed",
    "Timeout 30000ms exceeded", "Doubao page is not ready" }

\* Faulty variant: every error is retried.
IsTransientExecutionError_any(message) == TRUE

\* the five patterns of isTransientExecutionError
IsTransientExecutionError(message) ==
  \/ message = "Execution context was destroyed"
  \/ message = "Cannot find context with specified id"
  \/ message = "Frame was detached"
  \/ message = "Browsing context has been discarded"
  \/ message = "Target closed"

\* Math.min(300 + attempt * 200, 1_000)
BackoffMs(attempt) == Min2(300 + attempt * 200, 1000)

\* the call, with the default maxAttempts; calls counts in opCount
StartExtract ==
  /\ snap.at \in {"idle", "returned", "threw"}
  /\ opCount < MaxSnapCalls
  /\ opCount' = opCount + 1
  /\ snap' = [IdleSnap EXCEPT !.at = IF 0 < MaxAttempts THEN "extracting" ELSE "threw",
                              !.error = IF 0 < MaxAttempts THEN <<>>
                                        ELSE <<"Failed to read Doubao response snapshot">>]
  /\ UNCHANGED <<now, file, lastOp, audit, chatVars, procs, cap, lk, crawl, cls>>

\* extractCurrentTurnSnapshot returns
ExtractReturns ==
  /\ snap.at = "extracting"
  /\ snap' = [snap EXCEPT !.at = "returned", !.tries = @ + 1]
  /\ UNCHANGED <<guardVars, chatVars, procs, cap, lk, crawl, cls>>

\* extractCurrentTurnSnapshot throws: the catch block
ExtractThrows(message, isClosed) ==
  /\ snap.at = "extracting"
  /\ snap' = IF isClosed \/ ~IsTransientExecutionError(message)
                \/ snap.attempt >= MaxAttempts - 1
             THEN [snap EXCEPT !.at = "threw", !.tries = @ + 1,
                               !.lastError = <<message>>, !.closed = isClosed,
                               !.error = <<message>>]
             ELSE [snap EXCEPT !.at = "waiting", !.tries = @ + 1,
                               !.lastError = <<message>>, !.closed = isClosed]
  /\ UNCHANGED <<guardVars, chatVars, procs, cap, lk, crawl, cls>>

\* page.waitForTimeout(backoff) and the next turn of the loop
Backoff ==
  /\ snap.at = "waiting"
  /\ snap' = [snap EXCEPT !.waited = @ + BackoffMs(snap.attempt),
                          !.attempt = @ + 1,
                          !.at = IF snap.attempt + 1 < MaxAttempts THEN "extracting"
                                 ELSE "threw",
                          !.error = IF snap.attempt + 1 < MaxAttempts THEN <<>>
                                    ELSE snap.lastError]
  /\ UNCHANGED <<guardVars, chatVars, procs, cap, lk, crawl, cls>>

NextSnap ==
  \/ StartExtract
  \/ ExtractReturns
  \/ \E message \in ExtractionErrors, isClosed \in BOOLEAN : ExtractThrows(message, isClosed)
  \/ Backoff

SpecSnap == GuardInit /\ [][NextSnap]_vars

(***************************************************************************)
(* The outcome classifier applied to a message: the text of an error or of *)
(* a response, by the phrase groups it contains.                           *)
(***************************************************************************)
MaxClassifyCalls == 2

PhraseGroups ==
  {"captcha", "429", "login", "timeout", "paused_zh", "paused_en", "security_check"}

ClassifierInit ==
  /\ now = StartMs
  /\ file \in {EmptyProviders, TwoRisksEarlier}
  /\ opCount = 0
  /\ lastOp = NoOp
  /\ audit = [q \in Providers |-> NoAudit]
  /\ ChatIdle
  /\ RaceIdle
  /\ CaptureIdle
  /\ LockIdle
  /\ SnapIdle
  /\ CrawlIdle
  /\ \E from \in {"error", "response"}, message \in SUBSET PhraseGroups :
       cls = [from |-> from, message |-> message, kinds |-> <<>>]

\* detectRiskOutcomeFromError(error) or detectRiskOutcomeFromResponse(text)
Classify ==
  /\ cls.from # "none"
  /\ Len(cls.kinds) < MaxClassifyCalls
  /\ cls' = [cls EXCEPT !.kinds =
               Append(@, IF cls.from = "error"
                         THEN DetectRiskOutcomeFromError(cls.message)
                         ELSE DetectRiskOutcomeFromResponse(cls.message))]
  /\ UNCHANGED <<guardVars, chatVars, procs, cap, lk, snap, crawl>>

NextClassify == Classify

SpecClassify == ClassifierInit /\ [][NextClassify]_vars

(***************************************************************************)
(* crawlSources (part_008 208-279).  A URL is a sequence of characters.    *)
(* The runOne loops share one thread: each runs from one await to the      *)
(* next without interruption.                                              *)
(***************************************************************************)
MaxUrls == 3

Concurrencies == {1, 2, 3}

RawUrls == { <<"a">>, <<"a", ")">>, <<" ", "b">>, <<"c">>, <<";">> }

UrlLists == UNION { [1..n -> RawUrls] : n \in 0..MaxUrls }

FetchFailures == {"HTTP 503", "Unsupported content type: application/pdf"}

\* url.trim()
RECURSIVE Trim(_)
Trim(url) ==
  IF url = <<>> THEN url
  ELSE IF Head(url) = " " THEN Trim(Tail(url))
  ELSE IF url[Len(url)] = " " THEN Trim(SubSeq(url, 1, Len(url) - 1))
  ELSE url

\* url.replace(/[)\],.;]+$/g, '')
RECURSIVE NormalizeUrl(_)
NormalizeUrl(url) ==
  IF url # <<>> /\ url[Len(url)] \in {")", "]", ",", ".", ";"}
  THEN NormalizeUrl(SubSeq(url, 1, Len(url) - 1))
  ELSE url

\* [...new Set(urls.map(normalize).filter(Boolean))]: the first occurrences, in order
RECURSIVE UniqueUrls(_, _)
UniqueUrls(urls, seen) ==
  IF urls = <<>> THEN <<>>
  ELSE LET url == NormalizeUrl(Trim(Head(urls)))
       IN IF url = <<>> \/ url \in seen THEN UniqueUrls(Tail(urls), seen)
          ELSE <<url>> \o UniqueUrls(Tail(urls), seen \cup {url})

\* Faulty variant: one runOne per item.
WorkerCount_perItem(limit, length) == Max2(length, 1)

\* Math.min(limit, Math.max(items.length, 1))
WorkerCount(limit, length) == Min2(limit, Max2(length, 1))

\* a runOne takes the next index: it is done when the items are used up
TakeNext(nextIndex, length) ==
  IF nextIndex >= length THEN [at |-> "done", current |-> nextIndex]
  ELSE [at |-> "fetching", current |-> nextIndex]

Busy(workers) == Cardinality({w \in DOMAIN workers : workers[w].at = "fetching"})

\* the call down to Promise.all: every runOne takes its first index
StartCrawl(urls, concurrency) ==
  /\ crawl.phase = "idle"
  /\ LET uniqueUrls == UniqueUrls(urls, {})
         count == WorkerCount(concurrency, Len(uniqueUrls))
         workers == [w \in 1..count |-> TakeNext(w - 1, Len(uniqueUrls))]
     IN crawl' = [IdleCrawl EXCEPT
                    !.phase = "running",
                    !.urls = urls,
                    !.uniqueUrls = uniqueUrls,
                    !.limit = concurrency,
                    !.nextIndex = count,
                    !.results = [i \in 1..Len(uniqueUrls) |-> <<>>],
                    !.workers = workers,
                    !.fetched = [k \in 1..Min2(count, Len(uniqueUrls)) |-> uniqueUrls[k]],
                    !.maxBusy = Busy(workers)]
  /\ UNCHANGED <<guardVars, chatVars, procs, cap, lk, snap, cls>>

\* the worker of runOne w settles, with an extraction or with an error
\* caught and turned into an item; runOne stores it and takes the next index
FinishFetch(w, failure) ==
  /\ crawl.phase = "running"
  /\ w \in DOMAIN crawl.workers
  /\ crawl.workers[w].at = "fetching"
  /\ LET current == crawl.workers[w].current
         url == crawl.uniqueUrls[current + 1]
         next == TakeNext(crawl.nextIndex, Len(crawl.uniqueUrls))
         workers == [crawl.workers EXCEPT ![w] = next]
     IN crawl' = [crawl EXCEPT
                    !.results[current + 1] = <<[url |-> url, error |-> failure]>>,
                    !.nextIndex = @ + 1,
                    !.workers = workers,
                    !.fetched = IF next.at = "fetching"
                                THEN Append(@, crawl.uniqueUrls[next.current + 1]) ELSE @,
                    !.failedUrls = IF failure # <<>> THEN @ \cup {url} ELSE @,
                    !.maxBusy = Max2(@, Busy(workers))]
  /\ UNCHANGED <<guardVars, chatVars, procs, cap, lk, snap, cls>>

\* Promise.all resolves: the output
ReturnCrawl ==
  /\ crawl.phase = "running"
  /\ \A w \in DOMAIN crawl.workers : crawl.workers[w].at = "done"
  /\ LET items == crawl.results
         succeeded == Cardinality({i \in DOMAIN items :
                                     items[i] # <<>> /\ items[i][1].error = <<>>})
     IN crawl' = [crawl EXCEPT
                    !.phase = "returned",
                    !.output = <<[total |-> Len(items), succeeded |-> succeeded,
                                  failed |-> Len(items) - succeeded, items |-> items]>>]
  /\ UNCHANGED <<guardVars, chatVars, procs, cap, lk, snap, cls>>

NextCrawl ==
  \/ \E urls \in UrlLists, concurrency \in Concurrencies : StartCrawl(urls, concurrency)
  \/ \E w \in 1..3, failure \in {<<>>} \cup {<<f>> : f \in FetchFailures} :
       FinishFetch(w, failure)
  \/ ReturnCrawl

SpecCrawl == GuardInit /\ [][NextCrawl]_vars

(***************************************************************************)
(* Properties of runChat.                                                  *)
(***************************************************************************)
\* the call is over and its error is on the way to the caller
Threw == pc = "done" /\ chat.result = "threw"

\* the stages at which the request is already on its way to the platform:
\* every stage from the first launch on
Underway == chat.stage \notin {"init", "risk_guard_precheck", "risk_guard_attempt_start"}

\* C1: whenever runChat throws from the first browser launch on (launch
\* failure, login failure or timeout, verification timeout, submit or capture
\* error, exhausted retries, failure saving the response), recordRiskOutcome
\* has been called with the kind the thrown error classifies to.
C1_ThrowRecordsOutcome ==
  (Threw /\ Underway) =>
     /\ chat.outcomes # <<>>
     /\ chat.outcomes[Len(chat.outcomes)] = DetectRiskOutcomeFromError(chat.error[1])

\* C2: when runChat has returned or thrown, every browser session it
\* launched is closed.
C2_SessionsClosedOnExit ==
  pc = "done" => \A i \in DOMAIN sessions : ~sessions[i].open

\* C11: once evaluateRiskGuard has denied, runChat has thrown and no browser
\* session has been launched (launchBrowser was not even called).
C11_DenialLaunchesNothing ==
  ~chat.decision.allowed =>
     /\ Threw
     /\ chat.calls["launchBrowser"] = 0
     /\ sessions = <<>>

C11_Witness ==
  /\ Threw
  /\ chat.calls["evaluateRiskGuard"] = 1
  /\ ~chat.decision.allowed

\* what C12 says of the calls made so far: recordRiskAttemptStart at most
\* once, only after an allowing decision, and once before any launch
AttemptStartOrder ==
  /\ chat.calls["recordRiskAttemptStart"] <= 1
  /\ chat.calls["recordRiskAttemptStart"] = 1 =>
        chat.calls["evaluateRiskGuard"] = 1 /\ chat.decision.allowed
  /\ chat.calls["launchBrowser"] > 0 => chat.calls["recordRiskAttemptStart"] = 1
  /\ ~chat.decision.allowed => chat.calls["recordRiskAttemptStart"] = 0

\* C12 (as stated): recordRiskAttemptStart is called at most once, after the
\* allowing decision and before the first launch, never after a denial, and
\* every call of runChat that the guard allowed has made the call once by
\* the time it is over.
C12_AttemptStartExactlyOnce ==
  /\ AttemptStartOrder
  /\ (pc = "done" /\ chat.decision.allowed) => chat.calls["recordRiskAttemptStart"] = 1

\* C12 (amended): the same, but the call has been made once only in the
\* calls of runChat that got past bundle and session creation; one that
\* fails there has not made it.
C12_AttemptStartOnceAfterSession ==
  /\ AttemptStartOrder
  /\ (pc = "done" /\ chat.decision.allowed /\ chat.stage # "risk_guard_precheck")
        => chat.calls["recordRiskAttemptStart"] = 1
  /\ (pc = "done" /\ chat.stage = "risk_guard_precheck")
        => chat.calls["recordRiskAttemptStart"] = 0

\* a call with a retry in headed mode and a verification round behind it
C12_Witness ==
  /\ pc = "done"
  /\ chat.calls["recordRiskAttemptStart"] = 1
  /\ chat.calls["launchBrowser"] >= 3
  /\ chat.calls["submitPrompt"] >= 2

\* the calls of the flow made once per runChat
OncePerRun == {"evaluateRiskGuard", "createSession", "recordRiskAttemptStart"}

\* C19: one runChat makes at most 3 submit/capture attempts; the retries
\* after a verification challenge or a headless block resume at the submit
\* and run neither the guard evaluation, nor the session creation, nor the
\* attempt recording again; when no attempt has captured a response, runChat
\* throws.
C19_BoundedSubmitAttempts ==
  /\ chat.calls["submitPrompt"] <= AttemptLimit
  /\ chat.calls["captureResponse"] <= chat.calls["submitPrompt"]
  /\ \A callee \in OncePerRun : chat.calls[callee] <= 1
  /\ chat.calls["submitPrompt"] > 0 => \A callee \in OncePerRun : chat.calls[callee] = 1
  /\ (pc = "done" /\ chat.captured = NoCapture) => Threw
  /\ (pc = "done" /\ chat.result = "returned") => chat.captured # NoCapture

\* three attempts failed and were retried; runChat threw after the third
C19_Witness ==
  /\ pc = "done"
  /\ Threw
  /\ chat.calls["submitPrompt"] = AttemptLimit
  /\ chat.captured = NoCapture
  /\ chat.error = <<FailedToCaptureMessage>>
  /\ \A callee \in OncePerRun : chat.calls[callee] = 1

\* the session resolveHumanVerificationIfNeeded holds is open and headed,
\* and no headless session is open
HeadedSession ==
  /\ chat.rvBrowser # NoBrowser
  /\ ~chat.rvActiveHeadless
  /\ sessions[chat.rvBrowser].open
  /\ ~sessions[chat.rvBrowser].headless
  /\ \A i \in 1..Len(sessions) : sessions[i].headless => ~sessions[i].open

\* the wait for the verification ran into its deadline
VerificationTimedOut == chat.rvWaited >= HUMAN_VERIFICATION_WAIT_TIMEOUT_MS

\* C20: whenever runChat waits for a human verification to clear, the
\* session is headed (a headless one was closed and a visible one launched
\* first); the wait is polled every 2 s and ends within 5 minutes; when the
\* challenge clears the login is checked again before runChat goes on, and
\* at the deadline runChat throws the verification-timeout error.
C20_VerificationWaitHeadedAndBounded ==
  /\ [](/\ pc \in {"resolve_wait", "resolve_login"} => HeadedSession
        /\ chat.rvWaited <= HUMAN_VERIFICATION_WAIT_TIMEOUT_MS
        /\ chat.rvWaited % HUMAN_VERIFICATION_POLL_INTERVAL_MS = 0
        /\ pc = "resolve_login" => ~VerificationTimedOut
        /\ VerificationTimedOut =>
             /\ pc \in {"catch", "finally", "done"}
             /\ chat.error = <<VerificationTimedOutMessage>>
             /\ pc = "done" => Threw)
  /\ [][pc = "resolve_wait" =>
          \/ pc' = "resolve_login"
          \/ pc' = "catch" /\ VerificationTimedOut']_vars

\* a headless runChat met a challenge, relaunched headed, and the person
\* cleared it on the second poll
C20_Witness ==
  /\ pc = "resolve_login"
  /\ chat.headless
  /\ HeadedSession
  /\ Len(sessions) >= 2
  /\ chat.rvWaited = 2 * HUMAN_VERIFICATION_POLL_INTERVAL_MS

\* C21: once runChat has gone from a headless to a headed browser session,
\* it launches no headless session again in the same call: in the order of
\* its launches no headless session comes after a headed one.
C21_NoHeadlessAfterHeaded ==
  \A i, j \in DOMAIN sessions :
    (i < j /\ ~sessions[i].headless) => ~sessions[j].headless

\* C22: the polling of one runChat (capture polling over the retries, the
\* wait for a verification) stays within the caller's one timeout, measured
\* from one start: a retry or a sub-wait gets no fresh timeout of its own.
C22_OneTimeoutBudget == chat.polled + chat.rvWaited <= TimeoutMs

\* C34: submitPrompt is called only on a session on which isLoggedIn has
\* answered yes since its launch, whichever relaunch has led to it; when the
\* login is not there at the gate, after the verification or after the
\* relaunch of the headed retry, runChat throws the not-logged-in error.
C34_SubmitOnlyLoggedIn ==
  /\ [](pc \in {"attach_files", "submit_prompt", "capture_response"} =>
          /\ chat.browser \in DOMAIN sessions
          /\ sessions[chat.browser].open
          /\ chat.browser \in chat.loginOn)
  /\ [][( /\ pc \in {"login_gate", "resolve_login", "relaunch_headed_retry_after_block"}
          /\ pc' = "catch"
          /\ pc = "relaunch_headed_retry_after_block" => sessions' # sessions )
        => chat'.error = <<NotLoggedInMessage>>]_vars

\* the prompt is about to be submitted on the third session, the headless
\* one launched after the login in a headed one
C34_Witness ==
  /\ pc = "submit_prompt"
  /\ Len(sessions) = 3
  /\ chat.browser = 3
  /\ sessions[3].headless
  /\ ~sessions[2].headless
  /\ chat.loginOn = {2, 3}

\* C35: one call of runChat hands at most one outcome to the guard: the
\* outcome of the response and the outcome of an error are never both
\* recorded for one call.
C35_OneOutcomePerRun == Len(chat.outcomes) <= 1

(***************************************************************************)
(* Properties of two processes on one file.                                *)
(***************************************************************************)
\* both processes have saved
RaceOver == \A p \in Procs : procs[p].at = "saved"

\* the file after the operations of p and then of q, one after the other,
\* starting from the file that p loaded
Sequential(p, q) ==
  Saved(procs[q].op, Saved(procs[p].op, procs[p].state, procs[p].nowMs), procs[q].nowMs)

Elements(seq) == {seq[i] : i \in DOMAIN seq}

\* state a restricts at least as much as state b: no attempt, risk event,
\* counter increment, cooldown or breaker window of b is missing from a
AtLeastAsRestrictive(a, b) ==
  /\ Elements(b.attempts) \subseteq Elements(a.attempts)
  /\ Len(a.attempts) >= Len(b.attempts)
  /\ Elements(b.riskEvents) \subseteq Elements(a.riskEvents)
  /\ a.consecutiveRiskEvents >= b.consecutiveRiskEvents
  /\ ParseIsoOrZero(a.cooldownUntil) >= ParseIsoOrZero(b.cooldownUntil)
  /\ ParseIsoOrZero(a.breakerUntil) >= ParseIsoOrZero(b.breakerUntil)

\* C10: once two processes have each run a guard operation on the same
\* file, in any interleaving of their loads and saves, the file restricts
\* at least as much as it would after the two operations run one after the
\* other in some order.
C10_RaceNeverLosesRestriction ==
  RaceOver =>
    \E p \in Procs, q \in Procs :
      /\ p # q
      /\ \A provider \in RaceProviders :
            AtLeastAsRestrictive(ProviderStateOf(file, provider),
                                 ProviderStateOf(Sequential(p, q), provider))

(***************************************************************************)
(* Properties of the guard.                                                *)
(***************************************************************************)
\* the stored state of a provider, and the step of one guard call on it
St(provider) == ProviderStateOf(file, provider)

Called(op, provider) ==
  lastOp.op = op /\ lastOp.provider = provider

Calls(op, provider) ==
  opCount' = opCount + 1 /\ lastOp'.op = op /\ lastOp'.provider = provider

DeniedBy(provider, text) ==
  /\ ~lastOp.decision.allowed
  /\ lastOp.decision.message = <<provider, text>>

\* C3: once three risk-bearing outcomes have been recorded in a row for a
\* provider, breakerUntil lies at least a breaker duration after the third,
\* and every evaluate for that provider before that instant, whatever its
\* mode and prompt, is denied with the breaker message.
C3_BreakerAfterThreeRisks ==
  \A p \in Providers :
    /\ ParseIsoOrZero(St(p).breakerUntil) >= audit[p].tripUntil
    /\ (Called("evaluate", p) /\ now < audit[p].tripUntil)
         => DeniedBy(p, MsgBreaker)

\* an evaluate inside the breaker window, hours after the third risk outcome,
\* when the cooldown of that outcome is over
C3_Witness ==
  \E p \in Providers :
    /\ Called("evaluate", p)
    /\ audit[p].run >= 3
    /\ now < audit[p].tripUntil
    /\ ParseIsoOrZero(St(p).cooldownUntil) < now
    /\ DeniedBy(p, MsgBreaker)

\* C4: recording a success sets consecutiveRiskEvents to 0; as long as no
\* three risk-bearing outcomes have been recorded without a success between
\* them (risk, risk, success, risk, risk), breakerUntil is unset and no
\* evaluate is denied by the breaker.
C4_SuccessResetsCounter ==
  \A p \in Providers :
    /\ (Called("recordOutcome", p) /\ lastOp.kind = "success")
         => St(p).consecutiveRiskEvents = 0
    /\ ~audit[p].everThree
         => /\ St(p).breakerUntil = Undefined
            /\ ~(Called("evaluate", p) /\ DeniedBy(p, MsgBreaker))

\* risk, risk, success, risk, risk and then an evaluate
C4_Witness ==
  \E p \in Providers :
    /\ Called("evaluate", p)
    /\ audit[p].risks = 4
    /\ audit[p].run = 2
    /\ audit[p].sinceSuccess = 2
    /\ ~audit[p].everThree
    /\ St(p).consecutiveRiskEvents = 2

NeutralKinds == {"timeout", "other_error"}

\* C5 as stated: recordOutcome with a kind that is neither success nor
\* risk-bearing (timeout, other_error) leaves consecutiveRiskEvents unchanged.
C5_NeutralKeepsCounter ==
  [][\A p \in Providers :
       (Calls("recordOutcome", p) /\ lastOp'.kind \in NeutralKinds)
         => St(p)'.consecutiveRiskEvents = St(p).consecutiveRiskEvents]_vars

\* C5 as the code has it: recordOutcome with timeout or other_error sets
\* consecutiveRiskEvents to 0 and leaves cooldownUntil and breakerUntil as
\* they were.
C5_NeutralResetsCounter ==
  [][\A p \in Providers :
       (Calls("recordOutcome", p) /\ lastOp'.kind \in NeutralKinds)
         => /\ St(p)'.consecutiveRiskEvents = 0
            /\ St(p)'.cooldownUntil = St(p).cooldownUntil
            /\ St(p)'.breakerUntil = St(p).breakerUntil]_vars

\* a timeout recorded right after a risk-bearing outcome
C5_Witness ==
  \E p \in Providers :
    /\ Called("recordOutcome", p)
    /\ lastOp.kind \in NeutralKinds
    /\ Len(St(p).riskEvents) >= 2
    /\ IsRiskOutcome(St(p).riskEvents[Len(St(p).riskEvents) - 1].kind)
    /\ St(p).consecutiveRiskEvents = 0

\* C6: recordOutcome with a risk-bearing kind increments
\* consecutiveRiskEvents by exactly 1 and sets cooldownUntil to the later of
\* its previous value and now + the duration configured for that kind.
C6_RiskOutcomeCountsAndCools ==
  [][\A p \in Providers :
       (Calls("recordOutcome", p) /\ IsRiskOutcome(lastOp'.kind))
         => /\ St(p)'.consecutiveRiskEvents = St(p).consecutiveRiskEvents + 1
            /\ ParseIsoOrZero(St(p)'.cooldownUntil) =
                 Max2(ParseIsoOrZero(St(p).cooldownUntil),
                      now' + GetPolicy(p).cooldownByOutcomeMs[lastOp'.kind])]_vars

\* a risk outcome with a short cooldown recorded while a longer one is stored
C6_Witness ==
  \E p \in Providers :
    /\ Called("recordOutcome", p)
    /\ lastOp.kind = "auth_required"
    /\ St(p).consecutiveRiskEvents >= 2
    /\ ParseIsoOrZero(St(p).cooldownUntil)
         > now + GetPolicy(p).cooldownByOutcomeMs["auth_required"]

\* C7: over any sequence of guard calls with a non-decreasing clock,
\* cooldownUntil and breakerUntil never move to an earlier time, and a
\* recordOutcome that brings consecutiveRiskEvents to the breaker threshold
\* makes breakerUntil the later of its previous value and now + breakerDuration.
C7_WindowsNeverShrink ==
  [][\A p \in Providers :
       /\ ParseIsoOrZero(St(p)'.cooldownUntil) >= ParseIsoOrZero(St(p).cooldownUntil)
       /\ ParseIsoOrZero(St(p)'.breakerUntil) >= ParseIsoOrZero(St(p).breakerUntil)
       /\ ( /\ Calls("recordOutcome", p)
            /\ lastOp'.kind # "success"
            /\ St(p)'.consecutiveRiskEvents
                 >= GetPolicy(p).breakerConsecutiveRiskThreshold )
          => ParseIsoOrZero(St(p)'.breakerUntil) =
               Max2(ParseIsoOrZero(St(p).breakerUntil),
                    now' + GetPolicy(p).breakerDurationMs)]_vars

\* the counter at the threshold, a breaker window set, and a cooldown that
\* outlasts the one the last outcome asked for
C7_Witness ==
  \E p \in Providers :
    /\ Called("recordOutcome", p)
    /\ St(p).consecutiveRiskEvents >= GetPolicy(p).breakerConsecutiveRiskThreshold
    /\ ParseIsoOrZero(St(p).breakerUntil) = now + GetPolicy(p).breakerDurationMs
    /\ ParseIsoOrZero(St(p).cooldownUntil)
         > now + GetPolicy(p).cooldownByOutcomeMs[lastOp.kind]

(***************************************************************************)
(* The guard's rules, each stated on the stored state before the call.     *)
(***************************************************************************)
CountAttempts(providerState, Test(_)) ==
  Cardinality({i \in 1..Len(providerState.attempts) : Test(providerState.attempts[i])})

RuleViolated(rule, providerState, policy, nowMs, mode, prompt) ==
  LET since(windowMs, attempt) == attempt.at[1] >= nowMs - windowMs
      inAttempts(attempt) == since(policy.attemptsWindowMs, attempt)
      inHeadless(attempt) ==
        attempt.mode = "headless" /\ since(policy.headlessAttemptsWindowMs, attempt)
      inSame(attempt) ==
        attempt.promptHash = HashPrompt(prompt)
          /\ since(policy.samePromptWindowMs, attempt)
  IN CASE rule = 1 -> ParseIsoOrZero(providerState.breakerUntil) > nowMs
       [] rule = 2 -> ParseIsoOrZero(providerState.cooldownUntil) > nowMs
       [] rule = 3 ->
            /\ providerState.lastAttemptAt # Undefined
            /\ nowMs - providerState.lastAttemptAt[1] <
                 (IF mode = "headless" THEN policy.minIntervalMsHeadless
                                       ELSE policy.minIntervalMsHeaded)
       [] rule = 4 -> CountAttempts(providerState, inAttempts) >= policy.attemptsLimit
       [] rule = 5 ->
            /\ mode = "headless"
            /\ CountAttempts(providerState, inHeadless) >= policy.headlessAttemptsLimit
       [] rule = 6 -> CountAttempts(providerState, inSame) >= policy.samePromptLimit

RuleText(rule, mode) ==
  CASE rule = 1 -> MsgBreaker
    [] rule = 2 -> MsgCooldown
    [] rule = 3 -> MsgMinInterval(mode)
    [] rule = 4 -> MsgRateWindow
    [] rule = 5 -> MsgHeadlessRate
    [] rule = 6 -> MsgRepeatedPrompt

Rules == 1..6

ViolatedRules(providerState, policy, nowMs, mode, prompt) ==
  {rule \in Rules : RuleViolated(rule, providerState, policy, nowMs, mode, prompt)}

FirstOf(rules) == CHOOSE rule \in rules : \A other \in rules : rule <= other

\* C8: evaluate reports the first violated rule in the order breaker,
\* cooldown, minimum interval of the requested mode, overall attempt cap,
\* headless attempt cap (headless mode only), duplicate-prompt cap, and
\* returns allowed = true exactly when no rule is violated.
C8_FirstViolatedRuleWins ==
  [][\A p \in Providers :
       Calls("evaluate", p) =>
         LET violated ==
               ViolatedRules(St(p), GetPolicy(p), now', lastOp'.mode, lastOp'.prompt)
         IN /\ lastOp'.decision.allowed <=> violated = {}
            /\ violated # {} =>
                 lastOp'.decision.message =
                   <<p, RuleText(FirstOf(violated), lastOp'.mode)>>]_vars

\* an evaluate denied for the minimum interval while the overall cap and the
\* duplicate-prompt cap are violated too
C8_Witness ==
  \E p \in Providers :
    /\ Called("evaluate", p)
    /\ DeniedBy(p, MsgMinInterval(lastOp.mode))
    /\ {4, 6} \subseteq
         ViolatedRules(St(p), GetPolicy(p), now, lastOp.mode, lastOp.prompt)

CapDenial(decision) ==
  ~decision.allowed /\ decision.message[2] \in CapMessages

\* what a denial does to the stored cooldown
C9_DenialEffect ==
  \A p \in Providers :
    Calls("evaluate", p) =>
      /\ CapDenial(lastOp'.decision)
           => St(p)'.cooldownUntil = IsoNow(now' + GetPolicy(p).cooldownOnRateLimitMs)
      /\ (~lastOp'.decision.allowed /\ ~CapDenial(lastOp'.decision))
           => St(p)'.cooldownUntil = St(p).cooldownUntil

\* an evaluate issued before the end of the cooldown of an earlier cap denial
EvaluatesInCapCooldown(p) ==
  Calls("evaluate", p) /\ now' < audit[p].capUntil

\* C9 as stated: a denial for the overall cap, the headless cap or the
\* duplicate-prompt cap persists cooldownUntil = now + cooldownOnRateLimit,
\* so any evaluate before that time is denied citing cooldown; a denial for
\* breaker, cooldown or minimum interval sets no cooldown.
C9_CapDenialCitesCooldown ==
  [][/\ C9_DenialEffect
     /\ \A p \in Providers :
          EvaluatesInCapCooldown(p) =>
            /\ ~lastOp'.decision.allowed
            /\ lastOp'.decision.message = <<p, MsgCooldown>>]_vars

\* C9 as the code has it: the cooldown is persisted as stated and any
\* evaluate before that time is denied, citing the cooldown or, when the
\* breaker has tripped in the meantime, the breaker, which is checked first.
C9_CapDenialCoolsDown ==
  [][/\ C9_DenialEffect
     /\ \A p \in Providers :
          EvaluatesInCapCooldown(p) =>
            /\ ~lastOp'.decision.allowed
            /\ lastOp'.decision.message \in {<<p, MsgCooldown>>, <<p, MsgBreaker>>}]_vars

\* an evaluate, later than the cap denial, denied by the cooldown it set
C9_Witness ==
  \E p \in Providers :
    /\ Called("evaluate", p)
    /\ DeniedBy(p, MsgCooldown)
    /\ now < audit[p].capUntil
    /\ now > audit[p].capUntil - GetPolicy(p).cooldownOnRateLimitMs
    /\ St(p).cooldownUntil = IsoNow(audit[p].capUntil)

EarlierRules == 1..5

\* C24 as stated: when the attempts stored with the prompt's fingerprint
\* inside the duplicate-prompt window have reached the limit, the next
\* evaluate for that prompt is denied with the repeated-prompt message and
\* waitMs > 0.
C24_RepeatedPromptCited ==
  [][\A p \in Providers :
       ( /\ Calls("evaluate", p)
         /\ RuleViolated(6, St(p), GetPolicy(p), now', lastOp'.mode, lastOp'.prompt) )
       => /\ ~lastOp'.decision.allowed
          /\ lastOp'.decision.message = <<p, MsgRepeatedPrompt>>
          /\ lastOp'.decision.waitMs[1] > 0]_vars

\* C24: when the attempts stored with the prompt's fingerprint inside the
\* duplicate-prompt window have reached the limit, the next evaluate for
\* that prompt is denied with waitMs > 0; its reason is the repeated-prompt
\* message, with the rate-limit cooldown as waitMs, when none of the rules
\* checked before (breaker, cooldown, minimum interval, attempt caps) is
\* violated, and the message of the first of those otherwise.
C24_RepeatedPromptDenied ==
  [][\A p \in Providers :
       ( /\ Calls("evaluate", p)
         /\ RuleViolated(6, St(p), GetPolicy(p), now', lastOp'.mode, lastOp'.prompt) )
       => LET earlier ==
                ViolatedRules(St(p), GetPolicy(p), now', lastOp'.mode, lastOp'.prompt)
                  \cap EarlierRules
          IN /\ ~lastOp'.decision.allowed
             /\ lastOp'.decision.waitMs[1] > 0
             /\ lastOp'.decision.message =
                  <<p, IF earlier = {} THEN MsgRepeatedPrompt
                       ELSE RuleText(FirstOf(earlier), lastOp'.mode)>>
             /\ earlier = {} =>
                  lastOp'.decision.waitMs[1] = GetPolicy(p).cooldownOnRateLimitMs]_vars

\* one attempt with the prompt, and minutes later an evaluate for the same
\* prompt that is denied for the repetition
C24_Witness ==
  \E p \in Providers :
    /\ Called("evaluate", p)
    /\ DeniedBy(p, MsgRepeatedPrompt)
    /\ lastOp.decision.waitMs[1] > 0
    /\ Len(St(p).attempts) = 1
    /\ St(p).attempts[1].promptHash = HashPrompt(lastOp.prompt)
    /\ now > St(p).attempts[1].at[1]

\* an evaluate for the provider at the instant of the http_429 outcome
\* recorded just before
EvaluatesAfter429(p) ==
  /\ Called("recordOutcome", p)
  /\ lastOp.kind = "http_429"
  /\ Calls("evaluate", p)
  /\ now' = now

CooledDown(p, decision) ==
  /\ ~decision.allowed
  /\ decision.message = <<p, MsgCooldown>>
  /\ decision.waitMs[1] > 0
  /\ decision.waitMs[1] <= GetPolicy(p).cooldownByOutcomeMs["http_429"]

\* C25 as stated: an evaluate right after recordOutcome(http_429) for the
\* same provider is denied with the cooldown message and
\* 0 < waitMs <= the http_429 cooldown.
C25_CooldownAfter429 ==
  [][\A p \in Providers :
       EvaluatesAfter429(p) => CooledDown(p, lastOp'.decision)]_vars

\* C25: an evaluate right after recordOutcome(http_429) for the same
\* provider is denied; with no breaker window open, the reason is the
\* cooldown and 0 < waitMs <= the http_429 cooldown; with the breaker window
\* open (the http_429 was the third risk outcome in a row), the reason is
\* the breaker and 0 < waitMs <= the breaker duration.
C25_DeniedAfter429 ==
  [][\A p \in Providers :
       EvaluatesAfter429(p) =>
         IF ParseIsoOrZero(St(p).breakerUntil) > now'
         THEN /\ ~lastOp'.decision.allowed
              /\ lastOp'.decision.message = <<p, MsgBreaker>>
              /\ lastOp'.decision.waitMs[1] > 0
              /\ lastOp'.decision.waitMs[1] <= GetPolicy(p).breakerDurationMs
         ELSE CooledDown(p, lastOp'.decision)]_vars

\* the evaluate at the instant of a first http_429: the whole cooldown to wait
C25_Witness ==
  \E p \in Providers :
    /\ Called("evaluate", p)
    /\ DeniedBy(p, MsgCooldown)
    /\ lastOp.decision.waitMs[1] = GetPolicy(p).cooldownByOutcomeMs["http_429"]
    /\ St(p).consecutiveRiskEvents = 1
    /\ St(p).riskEvents[Len(St(p).riskEvents)] = [at |-> IsoNow(now), kind |-> "http_429"]

\* the time since the last attempt stored for the provider
SinceLastAttempt(p, nowMs) == nowMs - ParseIsoOrZero(St(p).lastAttemptAt)

\* C26: with no breaker and no cooldown active and the last attempt t ms ago,
\* t below the minimum interval of the requested mode, evaluate is denied
\* with the minimum-interval message and waitMs = minInterval - t; an attempt
\* 30 seconds ago under the 180000 ms headless interval gives 150000.
C26_MinIntervalRemainder ==
  [][\A p \in Providers :
       ( /\ Calls("evaluate", p)
         /\ ViolatedRules(St(p), GetPolicy(p), now', lastOp'.mode, lastOp'.prompt)
              \cap {1, 2} = {}
         /\ St(p).lastAttemptAt # Undefined
         /\ SinceLastAttempt(p, now') <
              (IF lastOp'.mode = "headless" THEN GetPolicy(p).minIntervalMsHeadless
               ELSE GetPolicy(p).minIntervalMsHeaded) )
       => /\ ~lastOp'.decision.allowed
          /\ lastOp'.decision.message = <<p, MsgMinInterval(lastOp'.mode)>>
          /\ lastOp'.decision.waitMs[1] =
               (IF lastOp'.mode = "headless" THEN GetPolicy(p).minIntervalMsHeadless
                ELSE GetPolicy(p).minIntervalMsHeaded) - SinceLastAttempt(p, now')
          /\ ( /\ lastOp'.mode = "headless"
               /\ GetPolicy(p).minIntervalMsHeadless = 180000
               /\ SinceLastAttempt(p, now') = 30000 )
             => lastOp'.decision.waitMs[1] = 150000]_vars

\* a headless evaluate 30 seconds after an attempt, the interval being
\* 180000 ms
C26_Witness ==
  \E p \in Providers :
    /\ Called("evaluate", p)
    /\ lastOp.mode = "headless"
    /\ GetPolicy(p).minIntervalMsHeadless = 180000
    /\ now - ParseIsoOrZero(St(p).lastAttemptAt) = 30000
    /\ DeniedBy(p, MsgMinInterval("headless"))
    /\ lastOp.decision.waitMs[1] = 150000

\* C27: every evaluate result with allowed = false has a message, naming the
\* provider, and a waitMs above 0, so that the message runChat throws on a
\* denial names the destination, a retry wait of at least one second that
\* covers waitMs, and the reason; a result with allowed = true has neither a
\* message nor a waitMs.
C27_DenialTellsReasonAndWait ==
  \A p \in Providers :
    Called("evaluate", p) =>
      LET decision == lastOp.decision
          blocked == BlockedMessage(p, decision)
      IN IF decision.allowed
         THEN decision.waitMs = Undefined /\ decision.message = Undefined
         ELSE /\ decision.message # Undefined
              /\ decision.message[1] = p
              /\ decision.waitMs # Undefined
              /\ decision.waitMs[1] > 0
              /\ blocked.destination = p
              /\ blocked.waitHint # Undefined
              /\ blocked.waitHint[1] >= 1
              /\ blocked.waitHint[1] * 1000 >= decision.waitMs[1]
              /\ blocked.reasonHint = <<decision.message>>

\* an evaluate denied for the minimum interval, four minutes into the ten
\* of the headless interval
C27_Witness ==
  \E p \in Providers :
    /\ Called("evaluate", p)
    /\ DeniedBy(p, MsgMinInterval("headless"))
    /\ lastOp.decision.waitMs = <<6 * 60000>>
    /\ BlockedMessage(p, lastOp.decision).waitHint = <<360>>

\* the attempts of s that are not older than the longest window over attempts
FreshAttempts(s, policy, nowMs) ==
  LET fresh(attempt) ==
        ParseIsoOrZero(attempt.at) >=
          nowMs - Max3(policy.attemptsWindowMs, policy.headlessAttemptsWindowMs,
                       policy.samePromptWindowMs)
  IN SelectSeq(s.attempts, fresh)

\* the risk events of s that are not older than max(breakerDuration, 24 h)
FreshRiskEvents(s, policy, nowMs) ==
  LET fresh(event) ==
        ParseIsoOrZero(event.at) >=
          nowMs - Max2(policy.breakerDurationMs, 24 * 60 * 60000)
  IN SelectSeq(s.riskEvents, fresh)

\* C28: recordAttemptStart appends one attempt {at = now, mode, fingerprint
\* of the prompt} to the provider's attempts (those still in retention) and
\* sets lastAttemptAt = now; consecutiveRiskEvents, cooldownUntil and
\* breakerUntil of the provider and the state of every other provider stay
\* as they were.
C28_AttemptStartFrame ==
  [][\A p \in Providers :
       Calls("recordAttemptStart", p) =>
         LET old == St(p)
             new == ProviderStateOf(file', p)
             kept == FreshAttempts(old, GetPolicy(p), now')
         IN /\ new.attempts =
                 Append(kept, [at |-> IsoNow(now'), mode |-> lastOp'.mode,
                               promptHash |-> HashPrompt(lastOp'.prompt)])
            /\ Len(new.attempts) <= Len(old.attempts) + 1
            /\ new.lastAttemptAt = IsoNow(now')
            /\ new.consecutiveRiskEvents = old.consecutiveRiskEvents
            /\ new.cooldownUntil = old.cooldownUntil
            /\ new.breakerUntil = old.breakerUntil
            /\ DOMAIN file' = DOMAIN file \cup {p}
            /\ \A q \in DOMAIN file \ {p} : file'[q] = file[q]]_vars

\* an attempt start recorded for a provider that has a risk event counted
\* and a cooldown stored, another provider having a state of its own
C28_Witness ==
  \E p \in Providers, q \in Providers :
    /\ q # p
    /\ Called("recordAttemptStart", p)
    /\ St(p).attempts = <<[at |-> IsoNow(now), mode |-> lastOp.mode,
                           promptHash |-> HashPrompt(lastOp.prompt)]>>
    /\ St(p).consecutiveRiskEvents = 1
    /\ St(p).cooldownUntil # Undefined
    /\ q \in DOMAIN file
    /\ St(q).attempts # <<>>

\* C29: after a guard operation at time now, every stored attempt of the
\* provider has at >= now - max(attemptsWindow, headlessAttemptsWindow,
\* samePromptWindow) and every stored risk event has
\* at >= now - max(breakerDuration, 24 h), and every entry that was stored
\* before within its window is still there, in its place.
C29_PrunedToRetention ==
  [][\A p \in Providers :
       ( \/ Calls("evaluate", p)
         \/ Calls("recordAttemptStart", p)
         \/ Calls("recordOutcome", p) ) =>
         LET old == St(p)
             new == ProviderStateOf(file', p)
             keptAttempts == FreshAttempts(old, GetPolicy(p), now')
             keptEvents == FreshRiskEvents(old, GetPolicy(p), now')
         IN /\ FreshAttempts(new, GetPolicy(p), now') = new.attempts
            /\ FreshRiskEvents(new, GetPolicy(p), now') = new.riskEvents
            /\ Len(new.attempts) >= Len(keptAttempts)
            /\ SubSeq(new.attempts, 1, Len(keptAttempts)) = keptAttempts
            /\ Len(new.riskEvents) >= Len(keptEvents)
            /\ SubSeq(new.riskEvents, 1, Len(keptEvents)) = keptEvents]_vars

\* an evaluate that finds the last attempt gone from the attempts, dropped
\* after its window, and keeps a risk event that is exactly 24 h old
C29_Witness ==
  \E p \in Providers :
    /\ Called("evaluate", p)
    /\ St(p).lastAttemptAt # Undefined
    /\ St(p).attempts = <<>>
    /\ St(p).riskEvents # <<>>
    /\ St(p).riskEvents[1].at = IsoNow(now - 24 * 60 * 60000)

\* a risk-bearing outcome is recorded for p when the breaker window stored
\* for p is over
RiskAfterExpiry(p) ==
  /\ Calls("recordOutcome", p)
  /\ lastOp'.kind \in {"paused_generation", "captcha_or_verification", "http_429",
                       "auth_required"}
  /\ St(p).breakerUntil # Undefined
  /\ now' >= ParseIsoOrZero(St(p).breakerUntil)

\* the breaker of p is set for a full duration from now
Rearmed(p) ==
  ProviderStateOf(file', p).breakerUntil = IsoNow(now' + GetPolicy(p).breakerDurationMs)

\* C36 as stated: once the breaker has tripped and no success has been
\* recorded since, one risk-bearing outcome after the end of the window sets
\* the breaker for a full duration again.
C36_RearmedWithoutSuccess ==
  [][\A p \in Providers :
       (RiskAfterExpiry(p) /\ audit[p].trippedNoSuccess) => Rearmed(p)]_vars

\* C36, amended: no guard call other than recordOutcome changes
\* consecutiveRiskEvents, so the end of the breaker window leaves it as it
\* is; once the breaker has tripped and every outcome recorded since was
\* risk-bearing (no success, no timeout, no other error), one risk-bearing
\* outcome after the end of the window sets the breaker for a full duration
\* again.
C36_RearmedWithoutReset ==
  [][\A p \in Providers :
       /\ (Calls("evaluate", p) \/ Calls("recordAttemptStart", p)) =>
            ProviderStateOf(file', p).consecutiveRiskEvents = St(p).consecutiveRiskEvents
       /\ ( /\ RiskAfterExpiry(p)
            /\ audit[p].run >= GetPolicy(p).breakerConsecutiveRiskThreshold )
          => /\ Rearmed(p)
             /\ ProviderStateOf(file', p).consecutiveRiskEvents
                  = St(p).consecutiveRiskEvents + 1]_vars

\* a fourth risk outcome in a row, recorded when the window of the third is
\* over, with the breaker set for a full duration from now
C36_Witness ==
  \E p \in Providers :
    /\ Called("recordOutcome", p)
    /\ St(p).consecutiveRiskEvents = 4
    /\ audit[p].run = 4
    /\ Len(St(p).riskEvents) = 4
    /\ ParseIsoOrZero(St(p).riskEvents[3].at) + GetPolicy(p).breakerDurationMs <= now
    /\ St(p).breakerUntil = IsoNow(now + GetPolicy(p).breakerDurationMs)

\* C37: evaluate leaves lastAttemptAt, consecutiveRiskEvents and
\* breakerUntil of the provider as they were, leaves of its attempts and risk
\* events exactly those still in retention, and, when it allows, leaves
\* cooldownUntil as it was; the other providers' states are not touched.
C37_EvaluateFrame ==
  [][\A p \in Providers :
       Calls("evaluate", p) =>
         LET old == St(p)
             new == ProviderStateOf(file', p)
         IN /\ new.lastAttemptAt = old.lastAttemptAt
            /\ new.consecutiveRiskEvents = old.consecutiveRiskEvents
            /\ new.breakerUntil = old.breakerUntil
            /\ new.attempts = FreshAttempts(old, GetPolicy(p), now')
            /\ new.riskEvents = FreshRiskEvents(old, GetPolicy(p), now')
            /\ lastOp'.decision.allowed => new.cooldownUntil = old.cooldownUntil
            /\ \A q \in DOMAIN file \ {p} : file'[q] = file[q]]_vars

\* an evaluate that allows, a day after the one attempt and the one risk
\* outcome of the provider: the attempt is pruned, the rest is as it was
C37_Witness ==
  \E p \in Providers :
    /\ Called("evaluate", p)
    /\ lastOp.decision.allowed
    /\ St(p).lastAttemptAt = IsoNow(now - 24 * 60 * 60000)
    /\ St(p).attempts = <<>>
    /\ St(p).consecutiveRiskEvents = 1
    /\ St(p).cooldownUntil # Undefined
    /\ Len(St(p).riskEvents) = 1

\* the state file is one that loadRiskState cannot use
Unusable == "unusable" \in DOMAIN file

\* C38: a guard operation that finds the state file missing, unreadable, no
\* JSON, of another version or without providers works as if no provider had
\* a history (evaluate allows), and the file it writes holds the state of
\* its own provider only, built from nothing: what the file held of breaker,
\* cooldown and attempts, for any provider, is gone.
C38_UnusableFileStartsOver ==
  [][\A p \in Providers :
       ( /\ Unusable
         /\ \/ Calls("evaluate", p)
            \/ Calls("recordAttemptStart", p)
            \/ Calls("recordOutcome", p) )
       => /\ "unusable" \notin DOMAIN file'
          /\ DOMAIN file' = {p}
          /\ file'[p].breakerUntil = Undefined
          /\ Len(file'[p].attempts) + Len(file'[p].riskEvents) <= 1
          /\ file'[p].consecutiveRiskEvents <= 1
          /\ lastOp'.op = "evaluate" =>
               /\ lastOp'.decision.allowed
               /\ file'[p] = DefaultProviderState
          /\ lastOp'.op = "recordAttemptStart" =>
               /\ Len(file'[p].attempts) = 1
               /\ file'[p].cooldownUntil = Undefined]_vars

\* the first call, an evaluate at the time at which the file, had it been
\* usable, had the breaker of the provider running: it allows and leaves a
\* file with this provider alone
C38_Witness ==
  /\ opCount = 1
  /\ now = StartMs
  /\ Called("evaluate", "yuanbao")
  /\ lastOp.decision.allowed
  /\ file = [q \in {"yuanbao"} |-> DefaultProviderState]

(***************************************************************************)
(* Properties of captureResponse.                                          *)
(***************************************************************************)
Polled == cap.prev # NoSnapshot

\* the answer text of the latest poll
LatestText == IF Polled THEN cap.prev[1].snapshot.answerText ELSE EmptyText

Returned == cap.phase = "returned"

CaptureThrew == cap.phase = "threw"

\* completion is declared at the threshold of matching polls, never before
StableCompletion ==
  /\ cap.completed => cap.sameRun >= STABLE_THRESHOLD(cap.dest)
  /\ (cap.sawNewTurn /\ cap.cleanRun >= STABLE_THRESHOLD(cap.dest) /\ Len(LatestText) > 0)
       => cap.completed /\ cap.cleanRun = STABLE_THRESHOLD(cap.dest)

\* a stable, non-empty answer without a stop button was returned
StableReturned ==
  /\ Returned
  /\ cap.completed
  /\ cap.cleanRun >= STABLE_THRESHOLD(cap.dest)
  /\ Len(LatestText) > 0

CaptureOver == Returned \/ CaptureThrew

\* C14: when the timeout is over and no poll ever had a signature other than
\* the baseline's, captureResponse fails with the no-response error and
\* returns no response, truncated or not.
C14_NoNewTurnFails ==
  (CaptureOver /\ ElapsedOver(cap) /\ ~cap.everDiffered) =>
    /\ CaptureThrew
    /\ cap.error = <<TimedOutWaitingMessage>>
    /\ cap.response = NoResponse

\* C15: when the timeout is over after a new turn was seen and before
\* completion was declared, captureResponse returns the answer of the latest
\* snapshot with truncated = true; truncated = false is returned only after
\* completion was declared.
C15_TimeoutReturnsTruncated ==
  (Returned /\ cap.sawNewTurn /\ ~cap.completed) =>
    /\ cap.response[1].truncated = TRUE
    /\ Len(LatestText) > 0 => cap.response[1].text.answer = LatestText

\* C16: completion is declared only when the latest answer text is not
\* empty; reaching the stable threshold with an empty answer text never ends
\* the polling as a completed response.
C16_CompletionNeedsAnswer == cap.completed => Len(LatestText) > 0

\* C17: stableCount goes up only on a poll whose signature equals the one of
\* the poll before and on which no streaming indicator is visible; any other
\* poll sets it back to 0, so that it never exceeds the number of latest
\* consecutive stable, non-streaming polls and completion needs threshold of
\* them (DeepSeek, Doubao).
C17_CountIsConsecutiveCleanPolls ==
  cap.dest \in {"deepseek", "doubao"} =>
    /\ cap.stableCount <= cap.cleanRun
    /\ cap.completed => cap.cleanRun >= STABLE_THRESHOLD(cap.dest)

\* C18: while the latest answer text of Doubao is an interim status (a
\* searching or thinking phrase, or nothing), stableCount is 0 however often
\* the same snapshot repeats, and completion is not declared.
C18_InterimNeverCounts ==
  (cap.dest = "doubao" /\ Polled /\ (LatestText = Searching \/ LatestText = EmptyText)) =>
    /\ cap.stableCount = 0
    /\ ~cap.completed

\* the same interim snapshot came back, with no stop button, threshold times
C18_Witness ==
  /\ cap.dest = "doubao"
  /\ cap.sawNewTurn
  /\ LatestText = Searching
  /\ cap.cleanRun >= STABLE_THRESHOLD("doubao")
  /\ cap.stableCount = 0

\* the text streamed so far, which the next poll's text is compared with
\* (lastText in chatgpt.ts, lastStreamedAnswer elsewhere)
StreamedSoFar ==
  IF cap.dest = "chatgpt" THEN cap.lastSnapshot.answerText ELSE cap.lastStreamedAnswer

\* C30: chunks come from prefix growth only: at a poll whose answer text
\* extends the text streamed so far, the chunk is the added suffix; at a poll
\* whose text does not extend it, no chunk is emitted.
C30_ChunksByPrefixGrowth ==
  [][(cap.phase = "polling" /\ cap'.polls = cap.polls + 1) =>
       LET text == cap'.prev[1].snapshot.answerText
           extends == Len(text) > Len(StreamedSoFar) /\ StartsWith(text, StreamedSoFar)
       IN /\ (cap'.sawNewTurn /\ extends) =>
               cap'.emitted = Slice(text, Len(StreamedSoFar))
          /\ ~extends => cap'.emitted = EmptyText]_vars

(***************************************************************************)
(* Properties of the snapshot extraction.                                  *)
(***************************************************************************)
\* the errors the extraction retries: a destroyed execution context, a
\* detached frame, a closed target
TransientErrors ==
  { "Execution context was destroyed", "Cannot find context with specified id",
    "Frame was detached", "Browsing context has been discarded", "Target closed" }

\* C31: the extraction is tried at most 6 times in all, and tried again only
\* after a transient error on an open page, after a backoff of at most one
\* second; an error that is not transient, an error on a closed page and the
\* error of the sixth try are thrown to the caller.
C31_BoundedTransientRetry ==
  /\ snap.tries <= 6
  /\ snap.waited <= 5 * 1000
  /\ snap.at = "waiting" =>
       /\ snap.lastError[1] \in TransientErrors
       /\ ~snap.closed
       /\ snap.tries < 6
  /\ (snap.tries > 1 /\ snap.lastError # <<>>) => snap.lastError[1] \in TransientErrors \/ snap.at = "threw"
  /\ ( /\ snap.at \in {"waiting", "threw"}
       /\ \/ snap.lastError[1] \notin TransientErrors
          \/ snap.closed
          \/ snap.tries = 6 )
       => snap.at = "threw" /\ snap.error = snap.lastError
  /\ snap.at = "returned" => snap.error = <<>>

\* the sixth try fails with a transient error, after five backoffs
C31_Witness ==
  /\ snap.at = "threw"
  /\ snap.tries = 6
  /\ snap.error = <<"Frame was detached">>
  /\ ~snap.closed
  /\ snap.waited = 300 + 500 + 700 + 900 + 1000

(***************************************************************************)
(* Properties of the outcome classifier.                                   *)
(***************************************************************************)
\* the phrase tables in their order of precedence, each with its kind
ErrorPrecedence ==
  << <<{"captcha"}, "captcha_or_verification">>,
     <<{"429"}, "http_429">>,
     <<{"login"}, "auth_required">>,
     <<{"timeout"}, "timeout">>,
     <<{"paused_zh", "paused_en"}, "paused_generation">> >>

ResponsePrecedence ==
  << <<{"paused_zh"}, "paused_generation">>,
     <<{"captcha"}, "captcha_or_verification">> >>

\* the kind of the first table of the precedence that the message matches
FirstMatch(precedence, message, otherwise) ==
  LET hits == {i \in DOMAIN precedence : precedence[i][1] \cap message # {}}
  IN IF hits = {} THEN otherwise
     ELSE precedence[CHOOSE i \in hits : \A k \in hits : i <= k][2]

\* C32: the kind depends on the message alone and is the same each time the
\* message is classified; a message matching several tables gets the kind of
\* the first in the order verification, rate limit, auth, timeout, paused
\* generation (else other_error) for errors, and paused generation,
\* verification (else success) for responses.
C32_ClassifierByPrecedence ==
  \A i \in DOMAIN cls.kinds :
    /\ cls.kinds[i] = cls.kinds[1]
    /\ cls.from = "error" =>
         cls.kinds[i] = FirstMatch(ErrorPrecedence, cls.message, "other_error")
    /\ cls.from = "response" =>
         cls.kinds[i] = FirstMatch(ResponsePrecedence, cls.message, "success")

\* an error matching the verification, rate-limit and timeout tables,
\* classified twice
C32_Witness ==
  /\ cls.from = "error"
  /\ cls.message = {"captcha", "429", "timeout"}
  /\ cls.kinds = <<"captcha_or_verification", "captcha_or_verification">>

(***************************************************************************)
(* Properties of crawlSources.                                             *)
(***************************************************************************)
\* the distinct URLs of the argument, trimmed and without the punctuation
\* that trails them, the empty ones left out
DistinctUrls ==
  {NormalizeUrl(Trim(crawl.urls[i])) : i \in DOMAIN crawl.urls} \ {<<>>}

\* where a URL first shows in the argument
FirstAt(url) ==
  CHOOSE i \in DOMAIN crawl.urls :
    /\ NormalizeUrl(Trim(crawl.urls[i])) = url
    /\ \A k \in 1..(i - 1) : NormalizeUrl(Trim(crawl.urls[k])) # url

CrawlReturned == crawl.phase = "returned"

\* C33: with concurrency >= 1, no more than `concurrency` fetches are ever in
\* flight and no URL is fetched twice; when crawlSources returns, every
\* distinct normalized URL has been fetched once, its item stands at its
\* place in the order of the input, an item has an error exactly when its
\* own URL failed, and total = succeeded + failed = the number of distinct
\* URLs.
C33_CrawlEachUrlOnce ==
  /\ crawl.maxBusy <= crawl.limit
  /\ \A i, k \in DOMAIN crawl.fetched : crawl.fetched[i] = crawl.fetched[k] => i = k
  /\ CrawlReturned =>
       LET out == crawl.output[1]
       IN /\ {crawl.fetched[i] : i \in DOMAIN crawl.fetched} = DistinctUrls
          /\ Len(crawl.fetched) = Cardinality(DistinctUrls)
          /\ Len(out.items) = Cardinality(DistinctUrls)
          /\ \A i \in DOMAIN out.items :
               /\ out.items[i] # <<>>
               /\ out.items[i][1].url \in DistinctUrls
               /\ (out.items[i][1].error # <<>>) <=> (out.items[i][1].url \in crawl.failedUrls)
          /\ \A i, k \in DOMAIN out.items :
               i < k => FirstAt(out.items[i][1].url) < FirstAt(out.items[k][1].url)
          /\ out.total = Cardinality(DistinctUrls)
          /\ out.total = out.succeeded + out.failed
          /\ out.failed = Cardinality(crawl.failedUrls)

\* three URLs of which two are one after normalization, crawled by two
\* workers; the first URL fails and the other one is fetched all the same
C33_Witness ==
  /\ CrawlReturned
  /\ crawl.urls = << <<"a", ")">>, <<"c">>, <<"a">> >>
  /\ crawl.limit = 2
  /\ crawl.maxBusy = 2
  /\ crawl.output[1].total = 2
  /\ crawl.output[1].succeeded = 1
  /\ crawl.output[1].failed = 1
  /\ crawl.output[1].items[1] = <<[url |-> <<"a">>, error |-> <<"HTTP 503">>]>>
  /\ crawl.output[1].items[2] = <<[url |-> <<"c">>, error |-> <<>>]>>

(***************************************************************************)
(* Properties of the profile lock.                                         *)
(***************************************************************************)
\* the process has returned from acquireProfileLock and not yet called release
HoldsLock(p) == lk.proc[p].at \in {"holding", "session"}

\* C23: at no time do two live processes both hold the profile lock of one
\* profile directory, however their reads, stale-lock removals and exclusive
\* creates interleave.
C23_LockIsExclusive ==
  \A p, q \in LockProcs : (p # q) => ~(HoldsLock(p) /\ HoldsLock(q))

\* the lock file holds the lockId of the lock of p
FileIsOf(l, p) == l.file # NoLockFile /\ l.file[1].lockId = l.proc[p].lockId

\* C39: release removes the lock file only when the file holds the lockId of
\* the lock released; a second release, or a release after the file was
\* removed or replaced by another holder, leaves the file as it is.
C39_ReleaseRemovesOwnLockOnly ==
  [][\A p \in LockProcs :
       ( /\ lk.proc[p].at \in {"release_read", "release_rm"}
         /\ lk'.proc[p] # lk.proc[p]
         /\ lk'.file # lk.file )
       => FileIsOf(lk, p)]_vars

\* C40: launchBrowser releases the lock it has acquired when the launch of
\* the context, the page or the navigation throws, and close() releases it
\* whether context.close() throws or not: once the error or close() is
\* through, release has run and the lock file does not hold the lock's
\* lockId any more.
C40_LockReleasedOnFailureAndClose ==
  /\ [](\A p \in LockProcs :
          lk.proc[p].at = "released" =>
            /\ lk.proc[p].exit \in {"launch_threw", "close_returned", "close_threw", "again"}
            /\ ~FileIsOf(lk, p))
  /\ [][\A p \in LockProcs :
          /\ (HoldsLock(p) /\ ~HoldsLock(p)') => lk'.proc[p].at = "release_read"
          /\ (lk.proc[p].at = "release_read" /\ lk'.proc[p] # lk.proc[p]) =>
               \/ lk'.proc[p].at = "release_rm"
               \/ lk'.proc[p].at = "released" /\ ~FileIsOf(lk, p)]_vars

\* close() is through with the error of context.close(), and the lock file
\* of the session is gone
C40_Witness ==
  \E p \in LockProcs :
    /\ lk.proc[p].at = "released"
    /\ lk.proc[p].exit = "close_threw"
    /\ lk.file = NoLockFile

====
